---- MODULE Spec2Model ----
(***************************************************************************)
(* Model of the inference batcher (services/inference/src/                 *)
(* inference_server.py, class InferenceBatcher), of the detector's batched *)
(* predict (models/ppe_detector.py) and of the detection publisher         *)
(* (kafka_producer.py, class DetectionKafkaProducer).                      *)
(*                                                                         *)
(* The batcher, the publisher's enqueue path and the callers run on one    *)
(* cooperative event loop: a coroutine runs without interruption from one  *)
(* await that suspends to the next.  Every action below is one such run.   *)
(* The detector's compute and the broker client's send run in an executor; *)
(* the broker client's delivery callbacks run on the client's own thread.  *)
(***************************************************************************)
EXTENDS Integers, Sequences, FiniteSets, TLC

\* ---------------------------------------------------------------- bounds
MaxSubmits == 3      \* submit() calls in one behaviour
MaxBatchSize == 2    \* InferenceBatcher.max_batch_size (constructor argument)
MaxPending == 2      \* DetectionKafkaProducer._max_pending
MaxStarts == 1       \* start() calls that spawn a batch loop
MaxStops == 1        \* stop() calls
MaxSessions == 1     \* successful connect() calls
MaxCancels == 1      \* callers cancelled while they await their future
MaxRecords == 3      \* records in the consumed partition (offsets 0..MaxRecords-1)
MaxPublishCalls == 2  \* publish_detection calls of direct callers
MaxConnectErrors == 1 \* connect() calls that fail
MaxAlerts == 3       \* publish_alert calls
MaxRuns == 2         \* NierConsumer.run calls
MaxRequests == 2     \* requests that reach the service in one behaviour
MaxBatchItems == 3   \* items of one batch request

FrameIds == <<"fa", "fb">>
DetectorErrors == {"boom"}
PublishError == "publish_error"

Items == 1..MaxSubmits

\* ------------------------------------------------------------- the state
VARIABLES
    items,            \* BatchItem of every submit() so far, in submit order
    fut,              \* BatchItem.future of every item
    queue,            \* InferenceBatcher._queue (indices into items)
    running,          \* InferenceBatcher._running
    batch_task,       \* InferenceBatcher._batch_task (0 = None, else a task)
    batch_event,      \* InferenceBatcher._batch_event
    tasks,            \* the _batch_loop tasks created so far
    stops,            \* the stop() calls made so far
    cancels,          \* number of callers cancelled so far
    has_producer,     \* InferenceBatcher.kafka_producer is not None
    is_connected,     \* DetectionKafkaProducer._is_connected
    producer,         \* DetectionKafkaProducer._producer (0 = None, else session)
    pending_messages, \* DetectionKafkaProducer._pending_messages
    disconnecting,    \* disconnect() holds the publisher lock, in flush/close
    inflight,         \* messages the broker client holds, callback not yet run
    cb,               \* value a running delivery callback has read (-1 = none)
    incr,             \* value "self._pending_messages += 1" has read (-1 = none)
    sessions,         \* broker sessions created so far
    direct,           \* publish_detection called by a caller other than the batcher
    connect_errors,   \* connect() calls that raised ConnectionError so far
    dispatched,       \* history: the batches handed to Detector.predict, in order
    predicted,        \* history: how each of these predict calls ended
    pubret,           \* history: outcome of publish_detection per item
    sent,             \* history: items handed to the broker client, in order
    alert,            \* AlertKafkaProducer and its publish_alert calls
    svc,              \* main.py: app_state, the lifespan coroutine, the health probes
    batch_rpc,        \* InferBatch / infer_batch: the request being served
    c_pc,             \* where NierConsumer.run is ("none": no consumer yet)
    c_running,        \* NierConsumer._running
    c_msg,            \* offset of the record run() holds (-1 = none)
    dlq_producer,     \* NierConsumer._dlq_producer is not None
    enable_auto_commit, \* config.consumer.enable_auto_commit
    position,         \* broker client: the stored offset (last delivered + 1)
    committed,        \* broker: the committed offset of the consumer group
    commitq,          \* broker client: asynchronous commits on their way
    runs,             \* number of run() calls so far
    handled,          \* history: handler.handle calls and how they ended
    on_errors,        \* history: offsets passed to handler.on_error
    dlq,              \* history: send_to_dlq calls and how they ended
    commits,          \* history: the commits run() issued
    codec_pc,         \* codec: "idle", "chosen", "encoded" or "decoded"
    codec_cls,        \* codec: the schema class of the value ("" = none)
    codec_x,          \* codec: the value to encode
    codec_bytes,      \* codec: what to_bytes returned
    codec_y           \* codec: what from_bytes returned

vars == <<items, fut, queue, running, batch_task, batch_event, tasks, stops,
          cancels,
          has_producer, is_connected, producer, pending_messages,
          disconnecting, inflight, cb, incr, sessions, direct, connect_errors,
          dispatched, predicted,
          pubret, sent, alert, svc, batch_rpc,
          c_pc, c_running, c_msg, dlq_producer, enable_auto_commit, position,
          committed, commitq, runs, handled, on_errors, dlq, commits,
          codec_pc, codec_cls, codec_x, codec_bytes, codec_y>>

batcherVars == <<items, fut, queue, running, batch_task, batch_event, tasks,
                 stops, cancels, dispatched, predicted>>
publisherVars == <<is_connected, producer, pending_messages, disconnecting,
                   inflight, cb, incr, sessions, direct, connect_errors,
                   pubret, sent>>
consumerVars == <<c_pc, c_running, c_msg, dlq_producer, enable_auto_commit,
                  position, committed, commitq, runs, handled, on_errors, dlq,
                  commits>>
codecVars == <<codec_pc, codec_cls, codec_x, codec_bytes, codec_y>>

\* The state of the inference service, and the state of the pipeline library
alertVars == <<alert>>
serviceVars == <<svc>>
batchPathVars == <<batch_rpc>>
inferenceVars == <<has_producer, batcherVars, publisherVars, alertVars,
                   serviceVars, batchPathVars>>
libraryVars == <<consumerVars, codecVars, alertVars, serviceVars,
                 batchPathVars>>

\* Everything but the alert publisher
nonAlertVars == <<has_producer, batcherVars, publisherVars, consumerVars,
                  codecVars, serviceVars, batchPathVars>>

\* Everything but the state of main.py
nonServiceVars == <<has_producer, batcherVars, publisherVars, consumerVars,
                    codecVars, alertVars, batchPathVars>>

\* Everything but the batch request
nonBatchPathVars == <<has_producer, batcherVars, publisherVars, consumerVars,
                      codecVars, alertVars, serviceVars>>

\* Python's None is the empty tuple, any other optional value v is <<v>>.
None == <<>>
Some(v) == <<v>>

\* no response of the batch path yet
NoResponse == [status |-> "none", responses |-> 0, successful_count |-> 0,
               failed_count |-> 0]

\* a health interface that has not been asked yet
NoProbe == [status |-> "none", model_loaded |-> FALSE, configured |-> FALSE,
            connected |-> FALSE]

\* ------------------------------------------------------------ futures
\* asyncio.Future: pending, then exactly one of result / exception / cancelled.
NewFuture == [state |-> "pending", frame_id |-> "", timestamp_ms |-> 0, err |-> ""]

Done(f) == f.state # "pending"

\* Future.set_result: raises InvalidStateError on a future that is done.
SetResult(f, r) ==
    IF Done(f) THEN [f EXCEPT !.state = "invalid_state"]
    ELSE [state |-> "result", frame_id |-> r.frame_id,
          timestamp_ms |-> r.timestamp_ms, err |-> ""]

\* Future.set_exception
SetException(f, e) ==
    IF Done(f) THEN [f EXCEPT !.state = "invalid_state"]
    ELSE [state |-> "exception", frame_id |-> "", timestamp_ms |-> 0, err |-> e]

\* Future.cancel: no effect on a future that is done.
Cancel(f) ==
    IF Done(f) THEN f
    ELSE [state |-> "cancelled", frame_id |-> "", timestamp_ms |-> 0, err |-> ""]

\* ResolveItem without the test of done()
ResolveItemUnchecked(fs, i, r) == [fs EXCEPT ![i] = SetResult(@, r)]

\* _process_batch: "if not item.future.done(): item.future.set_result(result)"
ResolveItem(fs, i, r) ==
    IF Done(fs[i]) THEN fs ELSE [fs EXCEPT ![i] = SetResult(@, r)]

\* FailBatch that stops after the first item of the batch
FailBatchFirstOnly(fs, batch, e) ==
    [i \in DOMAIN fs |->
        IF batch # <<>> /\ batch[1] = i /\ ~Done(fs[i])
        THEN SetException(fs[i], e) ELSE fs[i]]

\* _process_batch: "for item in items: if not item.future.done(): set_exception(e)"
FailBatch(fs, batch, e) ==
    [i \in DOMAIN fs |->
        IF (\E k \in 1..Len(batch) : batch[k] = i) /\ ~Done(fs[i])
        THEN SetException(fs[i], e) ELSE fs[i]]

\* stop(): "for item in self._queue: if not item.future.done(): item.future.cancel()"
CancelQueued(fs, q) ==
    [i \in DOMAIN fs |->
        IF (\E k \in 1..Len(q) : q[k] = i) /\ ~Done(fs[i])
        THEN Cancel(fs[i]) ELSE fs[i]]

\* ------------------------------------------------------------ detector
\* DetectorPredict that builds the results in reverse input order
DetectorPredictReversed(frame_ids, timestamps) ==
    [k \in 1..Len(frame_ids) |->
        [frame_id |-> frame_ids[Len(frame_ids) + 1 - k],
         timestamp_ms |-> timestamps[Len(frame_ids) + 1 - k]]]

\* PPEDetector.predict: one DetectionResult per image, built in input order
\* from zip(images, frame_ids, timestamps).
DetectorPredict(frame_ids, timestamps) ==
    [k \in 1..Len(frame_ids) |->
        [frame_id |-> frame_ids[k], timestamp_ms |-> timestamps[k]]]

\* ---------------------------------------------------------- batch loop
\* PopBatch without the size test of its while loop
PopBatchUnbounded(q, batch) == [batch |-> batch \o q, queue |-> <<>>]

\* PopBatch with pop() in place of popleft()
RECURSIVE PopBatchRight(_, _)
PopBatchRight(q, batch) ==
    IF q # <<>> /\ Len(batch) < MaxBatchSize
    THEN PopBatchRight(SubSeq(q, 1, Len(q) - 1), Append(batch, q[Len(q)]))
    ELSE [batch |-> batch, queue |-> q]

\* PopBatch with "if" in place of "while": one submission per batch
PopBatchOne(q, batch) ==
    IF q # <<>> /\ Len(batch) < MaxBatchSize
    THEN [batch |-> Append(batch, Head(q)), queue |-> Tail(q)]
    ELSE [batch |-> batch, queue |-> q]

\* _batch_loop: "while self._queue and len(batch_items) < self.max_batch_size:
\*                   batch_items.append(self._queue.popleft())"
RECURSIVE PopBatch(_, _)
PopBatch(q, batch) ==
    IF q # <<>> /\ Len(batch) < MaxBatchSize
    THEN PopBatch(Tail(q), Append(batch, Head(q)))
    ELSE [batch |-> batch, queue |-> q]

NewTask == [pc |-> "created", batch |-> <<>>, results |-> <<>>, k |-> 0]

\* "while self._running": where the loop goes after an iteration
LoopPc == IF running THEN "wait" ELSE "done"

Idle(pc) == [pc |-> pc, batch |-> <<>>, results |-> <<>>, k |-> 0]

\* The event loop's thread is inside publish_detection, between two awaits
\* that suspend: no other coroutine runs, only the broker client's thread.
InPublish(t) == tasks[t].pc \in {"check", "count", "store"}
LoopThreadFree ==
    /\ \A t \in DOMAIN tasks : ~InPublish(t)
    /\ direct.pc \notin {"count", "store"}

Init ==
    /\ items = <<>>
    /\ fut = <<>>
    /\ queue = <<>>
    /\ running = FALSE
    /\ batch_task = 0
    /\ batch_event = FALSE
    /\ tasks = <<>>
    /\ stops = <<>>
    /\ cancels = 0
    /\ has_producer \in BOOLEAN
    /\ is_connected = FALSE
    /\ producer = 0
    /\ pending_messages = 0
    /\ disconnecting = FALSE
    /\ inflight = {}
    /\ cb = -1
    /\ incr = -1
    /\ sessions = 0
    /\ direct = [pc |-> "idle", n |-> 0, ret |-> "none"]
    /\ connect_errors = 0
    /\ dispatched = <<>>
    /\ predicted = <<>>
    /\ pubret = <<>>
    /\ sent = <<>>
    /\ alert = [is_connected |-> FALSE, producer |-> 0, closing |-> FALSE,
                pc |-> "idle", calls |-> <<>>]
    /\ svc = [pc |-> "load", detector |-> FALSE, loaded |-> FALSE,
              kafka_producer |-> FALSE, grpc_servicer |-> FALSE,
              grpc_server |-> FALSE, serving |-> FALSE, ready |-> FALSE,
              failed |-> FALSE, log |-> <<>>, rpc_health |-> NoProbe,
              http_health |-> NoProbe]
    /\ batch_rpc = [pc |-> "idle", requests |-> <<>>, results |-> <<>>,
                    response |-> NoResponse]
    /\ c_pc = "none"
    /\ c_running = FALSE
    /\ c_msg = -1
    /\ dlq_producer = FALSE
    /\ enable_auto_commit = FALSE
    /\ position = 0
    /\ committed = 0
    /\ commitq = <<>>
    /\ runs = 0
    /\ handled = <<>>
    /\ on_errors = <<>>
    /\ dlq = <<>>
    /\ commits = <<>>
    /\ codec_pc = "idle"
    /\ codec_cls = ""
    /\ codec_x = <<>>
    /\ codec_bytes = <<>>
    /\ codec_y = <<>>

\* InferenceBatcher.start: "if self._running: return", else spawn the loop
Start(maxStarts) ==
    /\ LoopThreadFree
    /\ Len(tasks) < maxStarts
    /\ IF running
       THEN UNCHANGED <<running, tasks, batch_task>>
       ELSE /\ running' = TRUE
            /\ tasks' = Append(tasks, NewTask)
            /\ batch_task' = Len(tasks) + 1
    /\ UNCHANGED <<items, fut, queue, batch_event, stops, cancels, dispatched, predicted,
                   has_producer>>
    /\ UNCHANGED publisherVars
    /\ UNCHANGED libraryVars

\* The frame ids a caller can choose, up to renaming: one already used in
\* this behaviour, or the first unused one.
UsedFrameIds == {items[i].frame_id : i \in DOMAIN items}
FrameChoices ==
    {FrameIds[n] : n \in {m \in DOMAIN FrameIds :
                              \A l \in 1..(m - 1) : FrameIds[l] \in UsedFrameIds}}

\* BatchReady with ">" in place of ">="
BatchReadyStrict(q) == Len(q) > MaxBatchSize

\* submit: "if len(self._queue) >= self.max_batch_size"
BatchReady(q) == Len(q) >= MaxBatchSize

\* InferenceBatcher.submit, up to "return await future", for callers that
\* make at most maxSubmits calls; worker_id and camera_id are "" for None
\* (the servicer passes "request.worker_id or None")
SubmitAs(maxSubmits, frame_id, worker_id, camera_id) ==
    /\ LoopThreadFree
    /\ Len(items) < maxSubmits
    /\ LET i == Len(items) + 1
           q == Append(queue, i)
       IN /\ items' = Append(items, [frame_id |-> frame_id, timestamp_ms |-> i,
                                     worker_id |-> worker_id,
                                     camera_id |-> camera_id])
          /\ fut' = Append(fut, NewFuture)
          /\ pubret' = Append(pubret, "none")
          /\ queue' = q
          /\ batch_event' = IF BatchReady(q) THEN TRUE ELSE batch_event
    /\ UNCHANGED <<running, batch_task, tasks, stops, cancels, dispatched, predicted, has_producer,
                   is_connected, producer, pending_messages, disconnecting,
                   inflight, cb, incr, sessions, direct, connect_errors, sent>>
    /\ UNCHANGED libraryVars

\* submit() without worker_id and camera_id, with a frame id the caller
\* chooses among FrameChoices
SubmitUpTo(maxSubmits, frame_id) ==
    /\ frame_id \in FrameChoices
    /\ SubmitAs(maxSubmits, frame_id, "", "")

Submit(frame_id) == SubmitUpTo(MaxSubmits, frame_id)

\* The caller of submit() is cancelled while it awaits the future.
CallerCancel(i) ==
    /\ LoopThreadFree
    /\ i \in DOMAIN fut
    /\ ~Done(fut[i])
    /\ cancels < MaxCancels
    /\ cancels' = cancels + 1
    /\ fut' = [fut EXCEPT ![i] = Cancel(@)]
    /\ UNCHANGED <<items, queue, running, batch_task, batch_event, tasks, stops,
                   dispatched, predicted, has_producer>>
    /\ UNCHANGED publisherVars
    /\ UNCHANGED libraryVars

\* A stop() whose awaited task has finished: its continuation is scheduled.
StopReady(s) == stops[s].pc = "await" /\ tasks[stops[s].task].pc = "done"

\* InferenceBatcher.stop, up to "await self._batch_task"; the await does not
\* suspend when the task is already done, and is skipped when there is none.
StopCall(maxStops) ==
    /\ LoopThreadFree
    /\ Len(stops) < maxStops
    /\ running' = FALSE
    /\ IF batch_task # 0 /\ tasks[batch_task].pc # "done"
       THEN /\ batch_event' = TRUE
            /\ stops' = Append(stops, [pc |-> "await", task |-> batch_task])
            /\ UNCHANGED <<batch_task, fut, queue>>
       ELSE /\ batch_event' = IF batch_task # 0 THEN TRUE ELSE batch_event
            /\ batch_task' = 0
            /\ fut' = CancelQueued(fut, queue)
            /\ queue' = <<>>
            /\ stops' = Append(stops, [pc |-> "returned", task |-> 0])
    /\ UNCHANGED <<items, tasks, cancels, dispatched, predicted, has_producer>>
    /\ UNCHANGED publisherVars
    /\ UNCHANGED libraryVars

\* InferenceBatcher.stop, from the return of "await self._batch_task" to the end
StopResume(s) ==
    /\ LoopThreadFree
    /\ s \in DOMAIN stops
    /\ StopReady(s)
    /\ batch_task' = 0
    /\ fut' = CancelQueued(fut, queue)
    /\ queue' = <<>>
    /\ stops' = [stops EXCEPT ![s] = [pc |-> "returned", task |-> 0]]
    /\ UNCHANGED <<items, running, batch_event, tasks, cancels, dispatched, predicted,
                   has_producer>>
    /\ UNCHANGED publisherVars
    /\ UNCHANGED libraryVars

\* _batch_loop: first run of the task, up to the first wait.  The event loop
\* runs what is scheduled in FIFO order, so the first step of a task that
\* start() creates comes after a stop() continuation scheduled before it.
LoopBegin(t) ==
    /\ LoopThreadFree
    /\ t \in DOMAIN tasks
    /\ tasks[t].pc = "created"
    /\ \A s \in DOMAIN stops : ~StopReady(s)
    /\ tasks' = [tasks EXCEPT ![t] = Idle(LoopPc)]
    /\ UNCHANGED <<items, fut, queue, running, batch_task, batch_event, stops, cancels,
                   dispatched, predicted, has_producer>>
    /\ UNCHANGED publisherVars
    /\ UNCHANGED libraryVars

\* _batch_loop: what ends "await asyncio.wait_for(self._batch_event.wait(),
\* timeout=...)": the event, or the TimeoutError the loop passes over.
WakeCauses == {"signal", "timeout"}

\* _batch_loop: the wait ends (cause "signal": the event is set; cause
\* "timeout": batch_timeout_ms elapsed); clear the event, pop the batch, and
\* either go around the loop (empty batch) or call Detector.predict.
LoopWake(t, cause) ==
    /\ LoopThreadFree
    /\ t \in DOMAIN tasks
    /\ tasks[t].pc = "wait"
    /\ cause = "signal" => batch_event
    /\ batch_event' = FALSE
    /\ LET p == PopBatch(queue, <<>>)
       IN /\ queue' = p.queue
          /\ IF p.batch = <<>>
             THEN /\ tasks' = [tasks EXCEPT ![t] = Idle(LoopPc)]
                  /\ UNCHANGED <<dispatched, predicted>>
             ELSE /\ tasks' = [tasks EXCEPT ![t] =
                                  [pc |-> "predict", batch |-> p.batch,
                                   results |-> <<>>, k |-> 0]]
                  /\ dispatched' = Append(dispatched, p.batch)
                  /\ predicted' = Append(predicted, "running")
    /\ UNCHANGED <<items, fut, running, batch_task, stops, cancels, has_producer>>
    /\ UNCHANGED publisherVars
    /\ UNCHANGED libraryVars

\* PendingFull with ">" in place of ">="
PendingFullOffByOne == pending_messages > MaxPending

\* publish_detection: "if self._pending_messages >= self._max_pending"
PendingFull == pending_messages >= MaxPending

\* _process_batch: "if self.kafka_producer and self.kafka_producer.is_connected"
PublisherUsable == has_producer /\ is_connected

\* _process_batch: "for item, result in zip(items, results)" from index k on,
\* when no publish call of the rest suspends.
RECURSIVE ResolveFrom(_, _, _, _)
ResolveFrom(fs, batch, results, k) ==
    IF k > Len(batch) \/ k > Len(results) THEN fs
    ELSE ResolveFrom(ResolveItem(fs, batch[k], results[k]), batch, results, k + 1)

\* _process_batch: the for loop from index k on, up to the next call of
\* publish_detection or, when there is none, to the end of the batch and the
\* loop's next "while self._running".  fs and prs are the futures and publish
\* outcomes as left by the items before k.
ContinueBatch(t, k, results, fs, prs) ==
    LET batch == tasks[t].batch
    IN /\ pubret' = prs
       /\ IF k <= Len(batch) /\ k <= Len(results) /\ PublisherUsable
          THEN /\ fut' = fs
               /\ tasks' = [tasks EXCEPT ![t] =
                               [pc |-> "check", batch |-> batch,
                                results |-> results, k |-> k]]
          ELSE /\ fut' = ResolveFrom(fs, batch, results, k)
               /\ tasks' = [tasks EXCEPT ![t] = Idle(LoopPc)]

\* The predict call a task waits for, as an index into the history
BatchNo(t) == CHOOSE b \in DOMAIN dispatched : dispatched[b] = tasks[t].batch

\* What a detector returns for the batch of task t: PPEDetector.predict gives
\* one result per image (n = Len(batch)); BaseDetector leaves the length to
\* the implementation, so another detector can return the first n results
\* only, or more results than images (the last one repeated).
PredictResults(t, n) ==
    LET batch == tasks[t].batch
        frame_ids == [k \in 1..Len(batch) |-> items[batch[k]].frame_id]
        timestamps == [k \in 1..Len(batch) |-> items[batch[k]].timestamp_ms]
        results == DetectorPredict(frame_ids, timestamps)
    IN [k \in 1..n |-> results[IF k <= Len(batch) THEN k ELSE Len(batch)]]

\* _process_batch: Detector.predict returned n results
PredictReturnLength(t, n) ==
    /\ LoopThreadFree
    /\ t \in DOMAIN tasks
    /\ tasks[t].pc = "predict"
    /\ predicted' = [predicted EXCEPT ![BatchNo(t)] = "returned"]
    /\ ContinueBatch(t, 1, PredictResults(t, n), fut, pubret)
    /\ UNCHANGED <<items, queue, running, batch_task, batch_event, stops, cancels,
                   dispatched, has_producer, is_connected, producer,
                   pending_messages, disconnecting, inflight, cb, incr,
                   sessions, direct, connect_errors, sent>>
    /\ UNCHANGED libraryVars

\* _process_batch: Detector.predict returned
PredictReturn(t) ==
    /\ LoopThreadFree
    /\ t \in DOMAIN tasks
    /\ tasks[t].pc = "predict"
    /\ predicted' = [predicted EXCEPT ![BatchNo(t)] = "returned"]
    /\ LET batch == tasks[t].batch
           frame_ids == [k \in 1..Len(batch) |-> items[batch[k]].frame_id]
           timestamps == [k \in 1..Len(batch) |-> items[batch[k]].timestamp_ms]
       IN ContinueBatch(t, 1, DetectorPredict(frame_ids, timestamps), fut, pubret)
    /\ UNCHANGED <<items, queue, running, batch_task, batch_event, stops, cancels,
                   dispatched, has_producer, is_connected, producer,
                   pending_messages, disconnecting, inflight, cb, incr,
                   sessions, direct, connect_errors, sent>>
    /\ UNCHANGED libraryVars

\* _process_batch: Detector.predict raised e
PredictRaise(t, e) ==
    /\ LoopThreadFree
    /\ t \in DOMAIN tasks
    /\ tasks[t].pc = "predict"
    /\ predicted' = [predicted EXCEPT ![BatchNo(t)] = e]
    /\ fut' = FailBatch(fut, tasks[t].batch, e)
    /\ tasks' = [tasks EXCEPT ![t] = Idle(LoopPc)]
    /\ UNCHANGED <<items, queue, running, batch_task, batch_event, stops, cancels,
                   dispatched, has_producer>>
    /\ UNCHANGED publisherVars
    /\ UNCHANGED libraryVars

\* PublishCheck in which a full publisher raises instead of returning False
PublishCheckDropRaises(t) ==
    /\ t \in DOMAIN tasks
    /\ tasks[t].pc = "check"
    /\ IF PendingFull
       THEN /\ fut' = FailBatch(fut, tasks[t].batch, PublishError)
            /\ pubret' = [pubret EXCEPT ![tasks[t].batch[tasks[t].k]] = "dropped"]
            /\ tasks' = [tasks EXCEPT ![t] = Idle(LoopPc)]
       ELSE /\ tasks' = [tasks EXCEPT ![t].pc = "count"]
            /\ UNCHANGED <<fut, pubret>>
    /\ UNCHANGED <<items, queue, running, batch_task, batch_event, stops, cancels,
                   dispatched, predicted, has_producer, is_connected, producer,
                   pending_messages, disconnecting, inflight, cb, incr,
                   sessions, direct, connect_errors, sent>>
    /\ UNCHANGED libraryVars

\* publish_detection, from its call to "return False" (the pending count is
\* at the maximum; _process_batch then resolves the future and goes on with
\* the next item) or to the end of _build_message.
PublishCheck(t) ==
    /\ t \in DOMAIN tasks
    /\ tasks[t].pc = "check"
    /\ LET T == tasks[t]
           i == T.batch[T.k]
       IN IF PendingFull
          THEN ContinueBatch(t, T.k + 1, T.results,
                             ResolveItem(fut, i, T.results[T.k]),
                             [pubret EXCEPT ![i] = "dropped"])
          ELSE /\ tasks' = [tasks EXCEPT ![t].pc = "count"]
               /\ UNCHANGED <<fut, pubret>>
    /\ UNCHANGED <<items, queue, running, batch_task, batch_event, stops, cancels,
                   dispatched, predicted, has_producer, is_connected, producer,
                   pending_messages, disconnecting, inflight, cb, incr,
                   sessions, direct, connect_errors, sent>>
    /\ UNCHANGED libraryVars

\* publish_detection: "self._pending_messages += 1", the read ...
PublishCount(t) ==
    /\ t \in DOMAIN tasks
    /\ tasks[t].pc = "count"
    /\ incr' = pending_messages
    /\ tasks' = [tasks EXCEPT ![t].pc = "store"]
    /\ UNCHANGED <<items, fut, queue, running, batch_task, batch_event, stops,
                   cancels, dispatched, predicted, has_producer, is_connected,
                   producer, pending_messages, disconnecting, inflight, cb,
                   sessions, direct, connect_errors, pubret, sent>>
    /\ UNCHANGED libraryVars

\* ... and the write, then the send is handed to the executor and
\* publish_detection suspends
PublishStore(t) ==
    /\ t \in DOMAIN tasks
    /\ tasks[t].pc = "store"
    /\ pending_messages' = incr + 1
    /\ incr' = -1
    /\ tasks' = [tasks EXCEPT ![t].pc = "send"]
    /\ UNCHANGED <<items, fut, queue, running, batch_task, batch_event, stops,
                   cancels, dispatched, predicted, has_producer, is_connected,
                   producer, disconnecting, inflight, cb, sessions, direct, connect_errors, pubret, sent>>
    /\ UNCHANGED libraryVars

\* publish_detection: "key = result.frame_id"
PublishKey(result, worker_id, camera_id) == result.frame_id

\* _create_producer: key_serializer "lambda k: k.encode("utf-8") if k else None"
KeySerializer(k) == IF k # "" THEN Some(k) ELSE None

\* What "self._producer.send(...)" can do when the executor runs it: the
\* client accepts the message, raises a KafkaError, or raises something else
\* (the value serializer's TypeError; AttributeError when disconnect() has set
\* self._producer to None in the meantime).
SendOutcomes == IF producer = 0 THEN {"Exception"}
                ELSE {"accepted", "KafkaError", "Exception"}

\* publish_detection: the executor call of send returns or raises, then the
\* rest of publish_detection and of _process_batch's for loop.
SendDone(t, outcome) ==
    /\ LoopThreadFree
    /\ t \in DOMAIN tasks
    /\ tasks[t].pc = "send"
    /\ outcome \in SendOutcomes
    /\ LET T == tasks[t]
           i == T.batch[T.k]
       IN CASE outcome = "accepted" ->
                 \* add_callback / add_errback; "return True"
                 /\ inflight' = inflight \cup
                       {[item |-> i, session |-> producer,
                         key |-> KeySerializer(PublishKey(T.results[T.k],
                                                          items[i].worker_id,
                                                          items[i].camera_id))]}
                 /\ sent' = Append(sent, i)
                 /\ ContinueBatch(t, T.k + 1, T.results,
                                  ResolveItem(fut, i, T.results[T.k]),
                                  [pubret EXCEPT ![i] = "true"])
            [] outcome = "KafkaError" ->
                 \* "except KafkaError: ... return False"
                 /\ UNCHANGED <<inflight, sent>>
                 /\ ContinueBatch(t, T.k + 1, T.results,
                                  ResolveItem(fut, i, T.results[T.k]),
                                  [pubret EXCEPT ![i] = "false"])
            [] outcome = "Exception" ->
                 \* not caught in publish_detection: _process_batch's
                 \* "except Exception" fails the futures of the batch
                 /\ UNCHANGED <<inflight, sent>>
                 /\ fut' = FailBatch(fut, T.batch, PublishError)
                 /\ pubret' = [pubret EXCEPT ![i] = "raised"]
                 /\ tasks' = [tasks EXCEPT ![t] = Idle(LoopPc)]
    /\ UNCHANGED <<items, queue, running, batch_task, batch_event, stops, cancels,
                   dispatched, predicted, has_producer, is_connected, producer,
                   pending_messages, disconnecting, cb, incr, sessions, direct, connect_errors>>
    /\ UNCHANGED libraryVars

\* DetectionKafkaProducer.connect, when the broker is reachable
Connect ==
    /\ LoopThreadFree
    /\ has_producer
    /\ ~disconnecting
    /\ sessions < MaxSessions
    /\ IF is_connected
       THEN UNCHANGED <<producer, is_connected, sessions>>
       ELSE /\ producer' = sessions + 1
            /\ is_connected' = TRUE
            /\ sessions' = sessions + 1
    /\ UNCHANGED batcherVars
    /\ UNCHANGED <<has_producer, pending_messages, disconnecting, inflight, cb,
                   incr, direct, connect_errors, pubret, sent>>
    /\ UNCHANGED libraryVars

\* DetectionKafkaProducer.disconnect, up to the executor call of flush
DisconnectBegin ==
    /\ LoopThreadFree
    /\ has_producer
    /\ ~disconnecting
    /\ is_connected /\ producer # 0
    /\ disconnecting' = TRUE
    /\ UNCHANGED batcherVars
    /\ UNCHANGED <<has_producer, is_connected, producer, pending_messages,
                   inflight, cb, incr, sessions, direct, connect_errors, pubret, sent>>
    /\ UNCHANGED libraryVars

\* DetectionKafkaProducer.disconnect: the "finally" block
DisconnectEnd ==
    /\ LoopThreadFree
    /\ disconnecting
    /\ producer' = 0
    /\ is_connected' = FALSE
    /\ pending_messages' = 0
    /\ disconnecting' = FALSE
    /\ UNCHANGED batcherVars
    /\ UNCHANGED <<has_producer, inflight, cb, incr, sessions, direct, connect_errors, pubret, sent>>
    /\ UNCHANGED libraryVars

\* _on_send_success / _on_send_error on the broker client's thread: the read
\* of self._pending_messages ...
CallbackBegin(m) ==
    /\ m \in inflight
    /\ cb = -1
    /\ cb' = pending_messages
    /\ inflight' = inflight \ {m}
    /\ UNCHANGED batcherVars
    /\ UNCHANGED <<has_producer, is_connected, producer, pending_messages,
                   disconnecting, incr, sessions, direct, connect_errors, pubret, sent>>
    /\ UNCHANGED libraryVars

\* ... and the write of max(0, value - 1)
CallbackEnd ==
    /\ cb # -1
    /\ pending_messages' = IF cb - 1 > 0 THEN cb - 1 ELSE 0
    /\ cb' = -1
    /\ UNCHANGED batcherVars
    /\ UNCHANGED <<has_producer, is_connected, producer, disconnecting,
                   inflight, incr, sessions, direct, connect_errors, pubret, sent>>
    /\ UNCHANGED libraryVars

\* DetectionKafkaProducer.connect, when no broker is reachable:
\* _create_producer raises NoBrokersAvailable or another KafkaError and
\* connect raises ConnectionError
ConnectFail ==
    /\ LoopThreadFree
    /\ has_producer
    /\ ~disconnecting
    /\ ~is_connected
    /\ connect_errors < MaxConnectErrors
    /\ connect_errors' = connect_errors + 1
    /\ UNCHANGED batcherVars
    /\ UNCHANGED <<has_producer, is_connected, producer, pending_messages,
                   disconnecting, inflight, cb, incr, sessions, direct, pubret,
                   sent>>
    /\ UNCHANGED libraryVars

\* what a publish_detection call of a direct caller leaves behind
Returned(ret) == [pc |-> "idle", n |-> direct.n + 1, ret |-> ret]

\* PublishDetectionCall without the test of the connection
PublishDetectionCallUnchecked ==
    /\ LoopThreadFree
    /\ has_producer
    /\ direct.pc = "idle"
    /\ direct.n < MaxPublishCalls
    /\ direct' = IF PendingFull THEN Returned("false")
                 ELSE [pc |-> "count", n |-> direct.n + 1, ret |-> "none"]
    /\ UNCHANGED batcherVars
    /\ UNCHANGED <<has_producer, is_connected, producer, pending_messages,
                   disconnecting, inflight, cb, incr, sessions, connect_errors,
                   pubret, sent>>
    /\ UNCHANGED libraryVars

\* publish_detection called by a caller other than _process_batch (one that
\* does not test is_connected first, such as publish_batch's loop after a
\* disconnect): the test of the connection and the backpressure test
PublishDetectionCall ==
    /\ LoopThreadFree
    /\ has_producer
    /\ direct.pc = "idle"
    /\ direct.n < MaxPublishCalls
    /\ direct' = IF ~is_connected \/ producer = 0 THEN Returned("RuntimeError")
                 ELSE IF PendingFull THEN Returned("false")
                 ELSE [pc |-> "count", n |-> direct.n + 1, ret |-> "none"]
    /\ UNCHANGED batcherVars
    /\ UNCHANGED <<has_producer, is_connected, producer, pending_messages,
                   disconnecting, inflight, cb, incr, sessions, connect_errors,
                   pubret, sent>>
    /\ UNCHANGED libraryVars

\* the same call: "self._pending_messages += 1", the read ...
PublishDetectionCount ==
    /\ direct.pc = "count"
    /\ incr' = pending_messages
    /\ direct' = [direct EXCEPT !.pc = "store"]
    /\ UNCHANGED batcherVars
    /\ UNCHANGED <<has_producer, is_connected, producer, pending_messages,
                   disconnecting, inflight, cb, sessions, connect_errors,
                   pubret, sent>>
    /\ UNCHANGED libraryVars

\* ... and the write; the send is handed to the executor
PublishDetectionStore ==
    /\ direct.pc = "store"
    /\ pending_messages' = incr + 1
    /\ incr' = -1
    /\ direct' = [direct EXCEPT !.pc = "send"]
    /\ UNCHANGED batcherVars
    /\ UNCHANGED <<has_producer, is_connected, producer, disconnecting,
                   inflight, cb, sessions, connect_errors, pubret, sent>>
    /\ UNCHANGED libraryVars

\* the same call: the executor call of send returns or raises; the messages
\* of direct callers are numbered -1, -2, ...
PublishDetectionSend(outcome) ==
    /\ LoopThreadFree
    /\ direct.pc = "send"
    /\ outcome \in SendOutcomes
    /\ CASE outcome = "accepted" ->
              /\ inflight' = inflight \cup
                    {[item |-> 0 - direct.n, session |-> producer,
                      key |-> KeySerializer(FrameIds[1])]}
              /\ sent' = Append(sent, 0 - direct.n)
              /\ direct' = [direct EXCEPT !.pc = "idle", !.ret = "true"]
         [] outcome = "KafkaError" ->
              /\ UNCHANGED <<inflight, sent>>
              /\ direct' = [direct EXCEPT !.pc = "idle", !.ret = "false"]
         [] outcome = "Exception" ->
              /\ UNCHANGED <<inflight, sent>>
              /\ direct' = [direct EXCEPT !.pc = "idle", !.ret = "raised"]
    /\ UNCHANGED batcherVars
    /\ UNCHANGED <<has_producer, is_connected, producer, pending_messages,
                   disconnecting, cb, incr, sessions, connect_errors, pubret>>
    /\ UNCHANGED libraryVars

\* ------------------------------------------------------------- main.py
\* lifespan runs its startup statements in the order of StartupOrder, every
\* statement awaited before the next; whenever one raises, and when the
\* application ends, its "finally" block runs the statements of
\* ShutdownOrder, each under the "if" that tests whether the component exists.
\* svc.log lists the statements that have completed.

\* ShutdownOrder that unloads the detector first
ShutdownOrderUnloadFirst == <<"unload", "rpc_stop", "servicer_stop", "disconnect">>

\* lifespan: the "finally" block
ShutdownOrder == <<"rpc_stop", "servicer_stop", "disconnect", "unload">>

\* the statement of the "finally" block that follows statement pc
AfterShutdownStep(pc) ==
    LET k == CHOOSE j \in DOMAIN ShutdownOrder : ShutdownOrder[j] = pc
    IN IF k < Len(ShutdownOrder) THEN ShutdownOrder[k + 1] ELSE "stopped"

\* lifespan: an exception in startup ("except Exception: ... raise") or the
\* end of the application enters the "finally" block; "app_state.ready = False"
EnterShutdown(v, failed) ==
    [v EXCEPT !.pc = ShutdownOrder[1], !.ready = FALSE, !.failed = failed]

Logged(v, step) == [v EXCEPT !.log = Append(@, step)]

\* lifespan: "app_state.detector = PPEDetector(...)", "await detector.load()"
LifeLoad(ok) ==
    /\ svc.pc = "load"
    /\ svc' = IF ok
              THEN Logged([svc EXCEPT !.detector = TRUE, !.loaded = TRUE,
                                      !.pc = "warmup"], "load")
              ELSE EnterShutdown([svc EXCEPT !.detector = TRUE], TRUE)
    /\ UNCHANGED nonServiceVars

\* lifespan: "await detector.warmup(...)", then the publisher is constructed
\* and connect() is called
LifeWarmup(ok) ==
    /\ svc.pc = "warmup"
    /\ svc' = IF ok
              THEN Logged([svc EXCEPT !.kafka_producer = TRUE, !.pc = "connect"],
                          "warmup")
              ELSE EnterShutdown(svc, TRUE)
    /\ UNCHANGED nonServiceVars

\* lifespan: "await app_state.kafka_producer.connect()", the call
LifeConnectCall ==
    /\ svc.pc = "connect"
    /\ sessions = 0
    /\ connect_errors = 0

\* lifespan: connect() has returned or raised ConnectionError ("continuing
\* without Kafka"); the servicer is constructed and start() is called
LifeConnected ==
    /\ svc.pc = "connect"
    /\ sessions > 0 \/ connect_errors > 0
    /\ svc' = Logged([svc EXCEPT !.grpc_servicer = TRUE, !.pc = "servicer_start"],
                     "connect")
    /\ UNCHANGED nonServiceVars

\* lifespan: "await app_state.grpc_servicer.start()", the call
LifeServicerStartCall ==
    /\ svc.pc = "servicer_start"
    /\ tasks = <<>>

\* lifespan: the servicer has started the batcher
LifeServicerStarted ==
    /\ svc.pc = "servicer_start"
    /\ tasks # <<>>
    /\ svc' = Logged([svc EXCEPT !.pc = "rpc_start"], "servicer_start")
    /\ UNCHANGED nonServiceVars

\* lifespan: create_grpc_server and "await app_state.grpc_server.start()",
\* then "app_state.ready = True" and the yield
LifeRpcStart(ok) ==
    /\ svc.pc = "rpc_start"
    /\ svc' = IF ok
              THEN Logged([svc EXCEPT !.grpc_server = TRUE, !.serving = TRUE,
                                      !.ready = TRUE, !.pc = "running"],
                          "rpc_start")
              ELSE EnterShutdown([svc EXCEPT !.grpc_server = TRUE], TRUE)
    /\ UNCHANGED nonServiceVars

\* the application ends: lifespan resumes after its yield
LifeShutdown ==
    /\ svc.pc = "running"
    /\ svc' = EnterShutdown(svc, FALSE)
    /\ UNCHANGED nonServiceVars

\* finally: "if app_state.grpc_server: await app_state.grpc_server.stop(grace=5)"
LifeRpcStop ==
    /\ svc.pc = "rpc_stop"
    /\ svc' = IF svc.grpc_server
              THEN Logged([svc EXCEPT !.serving = FALSE,
                                      !.pc = AfterShutdownStep("rpc_stop")],
                          "rpc_stop")
              ELSE [svc EXCEPT !.pc = AfterShutdownStep("rpc_stop")]
    /\ UNCHANGED nonServiceVars

\* finally: "if app_state.grpc_servicer: await app_state.grpc_servicer.stop()",
\* the call
LifeServicerStopCall ==
    /\ svc.pc = "servicer_stop"
    /\ svc.grpc_servicer
    /\ stops = <<>>

\* finally: the servicer's stop() has returned, or there is no servicer
LifeServicerStopped ==
    /\ svc.pc = "servicer_stop"
    /\ svc.grpc_servicer =>
          (stops # <<>> /\ \A s \in DOMAIN stops : stops[s].pc = "returned")
    /\ svc' = IF svc.grpc_servicer
              THEN Logged([svc EXCEPT !.pc = AfterShutdownStep("servicer_stop")],
                          "servicer_stop")
              ELSE [svc EXCEPT !.pc = AfterShutdownStep("servicer_stop")]
    /\ UNCHANGED nonServiceVars

\* finally: "if app_state.kafka_producer: await ...disconnect()", the call
LifeDisconnectCall ==
    /\ svc.pc = "disconnect"
    /\ svc.kafka_producer

\* finally: disconnect() has returned (at once when the publisher is not
\* connected), or there is no publisher
LifeDisconnected ==
    /\ svc.pc = "disconnect"
    /\ ~disconnecting
    /\ svc.kafka_producer => ~is_connected
    /\ svc' = IF svc.kafka_producer
              THEN Logged([svc EXCEPT !.pc = AfterShutdownStep("disconnect")],
                          "disconnect")
              ELSE [svc EXCEPT !.pc = AfterShutdownStep("disconnect")]
    /\ UNCHANGED nonServiceVars

\* finally: "if app_state.detector: await app_state.detector.unload()"
LifeUnload ==
    /\ svc.pc = "unload"
    /\ svc' = IF svc.detector
              THEN Logged([svc EXCEPT !.loaded = FALSE,
                                      !.pc = AfterShutdownStep("unload")],
                          "unload")
              ELSE [svc EXCEPT !.pc = AfterShutdownStep("unload")]
    /\ UNCHANGED nonServiceVars

\* InferenceServicer.HealthCheck: "status"
RpcHealthStatus(model_loaded, configured, connected) ==
    LET kafka_connected == IF configured THEN connected ELSE FALSE
    IN IF model_loaded /\ (kafka_connected \/ ~configured)
       THEN "HEALTH_STATUS_HEALTHY"
       ELSE IF model_loaded THEN "HEALTH_STATUS_DEGRADED"
       ELSE "HEALTH_STATUS_UNHEALTHY"

\* main.py health_check: "status_str"
HttpHealthStatus(model_loaded, ready) ==
    IF model_loaded /\ ready THEN "healthy"
    ELSE IF model_loaded THEN "degraded"
    ELSE "unhealthy"

\* InferenceServicer.HealthCheck, served while the gRPC server serves
HealthCheck ==
    /\ svc.serving
    /\ svc' = [svc EXCEPT !.rpc_health =
                  [status |-> RpcHealthStatus(svc.loaded, has_producer, is_connected),
                   model_loaded |-> svc.loaded, configured |-> has_producer,
                   connected |-> is_connected]]
    /\ UNCHANGED nonServiceVars

\* GET /health, served between the end of startup and the shutdown
health_check ==
    /\ svc.pc = "running"
    /\ svc' = [svc EXCEPT !.http_health =
                  [status |-> HttpHealthStatus(svc.detector /\ svc.loaded, svc.ready),
                   model_loaded |-> svc.detector /\ svc.loaded,
                   configured |-> svc.kafka_producer,
                   connected |-> svc.kafka_producer /\ is_connected]]
    /\ UNCHANGED nonServiceVars

\* ---------------------------------------------------------- batch path
\* InferBatch (gRPC) and infer_batch (HTTP) have the same body.  A request is
\* the sequence of its items, each with an image that decodes ("image") or
\* does not ("undecodable": _decode_image / cv2.imdecode returns None).  What
\* gather(..., return_exceptions=True) returns for a submit call is its
\* DetectionResult ("result"), the exception set on its future ("exception")
\* or, when the future was cancelled, a CancelledError ("cancelled").

\* the items for which submit is called: "if image is not None"
RECURSIVE Decoded(_)
Decoded(requests) ==
    IF requests = <<>> THEN <<>>
    ELSE (IF Head(requests) = "image" THEN <<Head(requests)>> ELSE <<>>)
         \o Decoded(Tail(requests))

\* isinstance(result, Exception): CancelledError derives from BaseException
IsException(result) == result = "exception"

RECURSIVE CountFailed(_)
CountFailed(results) ==
    IF results = <<>> THEN 0
    ELSE (IF IsException(Head(results)) THEN 1 ELSE 0) + CountFailed(Tail(results))

\* the "for result in results" loop and the response; _build_response /
\* result.to_dict() of a CancelledError raises AttributeError, which the
\* handler's "except Exception" turns into an error status without response
BuildBatchResponse(results) ==
    IF \E k \in DOMAIN results : ~IsException(results[k]) /\ results[k] # "result"
    THEN [status |-> "INTERNAL", responses |-> 0, successful_count |-> 0,
          failed_count |-> 0]
    ELSE [status |-> "OK",
          responses |-> Len(results) - CountFailed(results),
          successful_count |-> Len(results) - CountFailed(results),
          failed_count |-> CountFailed(results)]

\* a batch request arrives
InferBatchCall(requests) ==
    /\ batch_rpc.pc = "idle"
    /\ batch_rpc' = [pc |-> "gather", requests |-> requests, results |-> <<>>,
                     response |-> NoResponse]
    /\ UNCHANGED nonBatchPathVars

\* one more of the gathered submit calls ends
InferBatchGather(outcome) ==
    /\ batch_rpc.pc = "gather"
    /\ Len(batch_rpc.results) < Len(Decoded(batch_rpc.requests))
    /\ batch_rpc' = [batch_rpc EXCEPT !.results = Append(@, outcome)]
    /\ UNCHANGED nonBatchPathVars

\* gather has returned: the response is built and returned
InferBatchReturn ==
    /\ batch_rpc.pc = "gather"
    /\ Len(batch_rpc.results) = Len(Decoded(batch_rpc.requests))
    /\ batch_rpc' = [batch_rpc EXCEPT !.pc = "idle",
                                      !.response = BuildBatchResponse(batch_rpc.results)]
    /\ UNCHANGED nonBatchPathVars

\* ------------------------------------------------------ alert publisher
\* AlertKafkaProducer.connect, when the broker is reachable
AlertConnect ==
    /\ alert.pc = "idle"
    /\ ~alert.closing
    /\ ~alert.is_connected
    /\ alert' = [alert EXCEPT !.is_connected = TRUE, !.producer = 1]
    /\ UNCHANGED nonAlertVars

\* AlertKafkaProducer.disconnect, up to the executor call of close
AlertDisconnectBegin ==
    /\ ~alert.closing
    /\ alert.producer # 0
    /\ alert' = [alert EXCEPT !.closing = TRUE]
    /\ UNCHANGED nonAlertVars

\* AlertKafkaProducer.disconnect, after close returned
AlertDisconnectEnd ==
    /\ alert.closing
    /\ alert' = [alert EXCEPT !.closing = FALSE, !.producer = 0,
                              !.is_connected = FALSE]
    /\ UNCHANGED nonAlertVars

\* publish_alert, up to the executor call: "if not self._is_connected or
\* self._producer is None: return False"
PublishAlertCall ==
    /\ alert.pc = "idle"
    /\ Len(alert.calls) < MaxAlerts
    /\ IF ~alert.is_connected \/ alert.producer = 0
       THEN alert' = [alert EXCEPT !.calls = Append(@,
                         [connected |-> FALSE, outcome |-> "none", ret |-> "false"])]
       ELSE alert' = [alert EXCEPT !.pc = "sending"]
    /\ UNCHANGED nonAlertVars

\* What "self._producer.send(...).get(timeout=5)" does in the executor: the
\* broker confirms the alert in time, get raises KafkaTimeoutError, send or
\* get raises another KafkaError, or something else is raised (the value
\* serializer's TypeError; AttributeError when disconnect() has set
\* self._producer to None in the meantime).
AlertOutcomes == IF alert.producer = 0 THEN {"Exception"}
                 ELSE {"confirmed", "KafkaTimeoutError", "KafkaError", "Exception"}

\* AlertReturn with "except KafkaError" in place of "except Exception"
AlertReturnKafkaOnly(outcome) ==
    IF outcome = "confirmed" THEN "true"
    ELSE IF outcome = "Exception" THEN "raised" ELSE "false"

\* publish_alert: "return True" after the executor call, "return False" in
\* "except Exception"
AlertReturn(outcome) == IF outcome = "confirmed" THEN "true" ELSE "false"

\* publish_alert, from the end of the executor call to the return
PublishAlertDone(outcome) ==
    /\ alert.pc = "sending"
    /\ outcome \in AlertOutcomes
    /\ alert' = [alert EXCEPT !.pc = "idle",
                              !.calls = Append(@, [connected |-> TRUE,
                                                   outcome |-> outcome,
                                                   ret |-> AlertReturn(outcome)])]
    /\ UNCHANGED nonAlertVars

\* ------------------------------------------------------------ consumer
\* NierConsumer over one partition of one topic whose records have the offsets
\* 0..MaxRecords-1.  The broker client (confluent_kafka.Consumer) stores the
\* offset after each record that poll() delivers, commit() without arguments
\* commits the stored offset, and a consumer that joins the group starts at
\* the group's committed offset (auto.offset.reset applies when there is none).

\* NierConsumer.__init__ (ConsumerBuilder.build), first consumer of the group
ConsumerNew(with_dlq, auto_commit) ==
    /\ c_pc = "none"
    /\ c_pc' = "new"
    /\ dlq_producer' = with_dlq
    /\ enable_auto_commit' = auto_commit
    /\ position' = committed
    /\ UNCHANGED <<c_running, c_msg, committed, commitq, runs, handled,
                   on_errors, dlq, commits>>
    /\ UNCHANGED <<inferenceVars, codecVars>>

\* The process ends after run() returned or raised and a new NierConsumer of
\* the same group is constructed: it starts at the committed offset, and the
\* asynchronous commits still on their way are lost.
ConsumerRestart ==
    /\ c_pc \in {"stopped", "raised"}
    /\ runs < MaxRuns
    /\ c_pc' = "new"
    /\ c_running' = FALSE
    /\ c_msg' = -1
    /\ position' = committed
    /\ commitq' = <<>>
    /\ UNCHANGED <<dlq_producer, enable_auto_commit, committed, runs, handled,
                   on_errors, dlq, commits>>
    /\ UNCHANGED <<inferenceVars, codecVars>>

\* NierConsumer.run, up to the first "while self._running"
RunCall ==
    /\ c_pc \in {"new", "stopped"}
    /\ runs < MaxRuns
    /\ runs' = runs + 1
    /\ c_running' = TRUE
    /\ c_pc' = "top"
    /\ UNCHANGED <<c_msg, dlq_producer, enable_auto_commit, position, committed,
                   commitq, handled, on_errors, dlq, commits>>
    /\ UNCHANGED <<inferenceVars, codecVars>>

\* NierConsumer.shutdown, from another thread or from the signal handler
Shutdown ==
    /\ c_pc # "none"
    /\ c_running
    /\ c_running' = FALSE
    /\ UNCHANGED <<c_pc, c_msg, dlq_producer, enable_auto_commit, position,
                   committed, commitq, runs, handled, on_errors, dlq, commits>>
    /\ UNCHANGED <<inferenceVars, codecVars>>

\* run: "while self._running" is true, poll() is called
LoopTop ==
    /\ c_pc = "top"
    /\ c_running
    /\ c_pc' = "polling"
    /\ UNCHANGED <<c_running, c_msg, dlq_producer, enable_auto_commit, position,
                   committed, commitq, runs, handled, on_errors, dlq, commits>>
    /\ UNCHANGED <<inferenceVars, codecVars>>

\* run: poll() returns None ("none"), an error event ("error"), or the next
\* record of the partition, which _convert_message converts ("msg") or fails
\* to convert ("undecodable": a header value that is not UTF-8).
PollReturn(kind) ==
    /\ c_pc = "polling"
    /\ CASE kind \in {"none", "error"} ->
              /\ c_pc' = "top"
              /\ UNCHANGED <<c_msg, position>>
         [] kind = "msg" ->
              /\ position < MaxRecords
              /\ c_msg' = position
              /\ position' = position + 1
              /\ c_pc' = "got"
         [] kind = "undecodable" ->
              /\ position < MaxRecords
              /\ c_msg' = position
              /\ position' = position + 1
              /\ c_pc' = "raising"
    /\ UNCHANGED <<c_running, dlq_producer, enable_auto_commit, committed,
                   commitq, runs, handled, on_errors, dlq, commits>>
    /\ UNCHANGED <<inferenceVars, codecVars>>

\* Handle in which a failed DLQ publish ends run() with the exception
HandleDlqFailureRaises(ok, dlq_ok) ==
    /\ c_pc = "got"
    /\ handled' = Append(handled, [run |-> runs, offset |-> c_msg, ok |-> ok])
    /\ on_errors' = IF ok THEN on_errors ELSE Append(on_errors, c_msg)
    /\ dlq' = IF ~ok /\ dlq_producer
              THEN Append(dlq, [offset |-> c_msg, ok |-> dlq_ok]) ELSE dlq
    /\ c_pc' = IF ~ok /\ dlq_producer /\ ~dlq_ok THEN "raising" ELSE "top"
    /\ UNCHANGED <<c_running, c_msg, dlq_producer, enable_auto_commit, position,
                   committed, commitq, runs, commits>>
    /\ UNCHANGED <<inferenceVars, codecVars>>

\* run: the try block around handler.handle.  ok: the handler returned, and
\* the stored offsets are committed asynchronously unless auto-commit is on;
\* ~ok: the handler raised, handler.on_error is called and, with a DLQ
\* producer, send_to_dlq, whose own failure (~dlq_ok) is logged.
Handle(ok, dlq_ok) ==
    /\ c_pc = "got"
    /\ handled' = Append(handled, [run |-> runs, offset |-> c_msg, ok |-> ok])
    /\ IF ok
       THEN /\ IF enable_auto_commit
               THEN UNCHANGED <<commitq, commits>>
               ELSE /\ commitq' = Append(commitq, position)
                    /\ commits' = Append(commits, [offset |-> position,
                                                   kind |-> "async"])
            /\ UNCHANGED <<on_errors, dlq>>
       ELSE /\ on_errors' = Append(on_errors, c_msg)
            /\ dlq' = IF dlq_producer
                      THEN Append(dlq, [offset |-> c_msg, ok |-> dlq_ok])
                      ELSE dlq
            /\ UNCHANGED <<commitq, commits>>
    /\ c_pc' = "top"
    /\ UNCHANGED <<c_running, c_msg, dlq_producer, enable_auto_commit, position,
                   committed, runs>>
    /\ UNCHANGED <<inferenceVars, codecVars>>

\* run: the same try block when commit_async can raise as well (commit_ok is
\* false: "self._consumer.commit(asynchronous=True)" raises a KafkaException,
\* for instance when the group has been rebalanced away or the client is
\* closed).  Both calls stand in one "try", so the "except Exception" block
\* runs for an exception of either: handler.on_error and send_to_dlq are
\* called with the record although handler.handle returned for it.
HandleCommit(ok, commit_ok, dlq_ok) ==
    /\ c_pc = "got"
    /\ handled' = Append(handled, [run |-> runs, offset |-> c_msg, ok |-> ok])
    /\ IF ok /\ (enable_auto_commit \/ commit_ok)
       THEN /\ IF enable_auto_commit
               THEN UNCHANGED <<commitq, commits>>
               ELSE /\ commitq' = Append(commitq, position)
                    /\ commits' = Append(commits, [offset |-> position,
                                                   kind |-> "async"])
            /\ UNCHANGED <<on_errors, dlq>>
       ELSE /\ on_errors' = Append(on_errors, c_msg)
            /\ dlq' = IF dlq_producer
                      THEN Append(dlq, [offset |-> c_msg, ok |-> dlq_ok])
                      ELSE dlq
            /\ UNCHANGED <<commitq, commits>>
    /\ c_pc' = "top"
    /\ UNCHANGED <<c_running, c_msg, dlq_producer, enable_auto_commit, position,
                   committed, runs>>
    /\ UNCHANGED <<inferenceVars, codecVars>>

\* RunExit in which a failure of the final commit leaves run() as an exception
RunExitCommitRaises(commit_ok) ==
    /\ \/ c_pc = "top" /\ ~c_running
       \/ c_pc = "raising"
    /\ c_pc' = IF c_pc = "raising" \/ (~enable_auto_commit /\ ~commit_ok)
               THEN "raised" ELSE "stopped"
    /\ c_running' = c_running
    /\ IF ~enable_auto_commit /\ commit_ok
       THEN /\ committed' = position
            /\ commitq' = <<>>
            /\ commits' = Append(commits, [offset |-> position, kind |-> "sync"])
       ELSE UNCHANGED <<committed, commitq, commits>>
    /\ UNCHANGED <<c_msg, dlq_producer, enable_auto_commit, position, runs,
                   handled, on_errors, dlq>>
    /\ UNCHANGED <<inferenceVars, codecVars>>

\* run: the "finally" block, reached when "while self._running" is false or
\* when an exception leaves the loop: the stored offsets are committed
\* synchronously unless auto-commit is on; a failure of this commit is logged.
RunExit(commit_ok) ==
    /\ \/ c_pc = "top" /\ ~c_running
       \/ c_pc = "raising"
    /\ c_pc' = IF c_pc = "raising" THEN "raised" ELSE "stopped"
    /\ c_running' = c_running
    /\ IF ~enable_auto_commit /\ commit_ok
       THEN /\ committed' = position
            /\ commitq' = <<>>
            /\ commits' = Append(commits, [offset |-> position, kind |-> "sync"])
       ELSE UNCHANGED <<committed, commitq, commits>>
    /\ UNCHANGED <<c_msg, dlq_producer, enable_auto_commit, position, runs,
                   handled, on_errors, dlq>>
    /\ UNCHANGED <<inferenceVars, codecVars>>

\* Broker client: an asynchronous commit reaches the broker, or fails
AsyncCommitDone(ok) ==
    /\ commitq # <<>>
    /\ commitq' = Tail(commitq)
    /\ committed' = IF ok THEN Head(commitq) ELSE committed
    /\ UNCHANGED <<c_pc, c_running, c_msg, dlq_producer, enable_auto_commit,
                   position, runs, handled, on_errors, dlq, commits>>
    /\ UNCHANGED <<inferenceVars, codecVars>>

\* Broker client: the periodic commit of the stored offset (auto-commit on)
AutoCommit ==
    /\ enable_auto_commit
    /\ c_pc \notin {"none", "new"}
    /\ committed # position
    /\ committed' = position
    /\ UNCHANGED <<c_pc, c_running, c_msg, dlq_producer, enable_auto_commit,
                   position, commitq, runs, handled, on_errors, dlq, commits>>
    /\ UNCHANGED <<inferenceVars, codecVars>>

\* -------------------------------------------------------------- schemas
\* The message classes of schemas.py and their JSON codec.  A Python value is
\* modelled by a record with the attributes of its dataclass, None and JSON
\* null by the empty tuple, any other optional value v by <<v>>, a float by an
\* integer number of thousandths, a dict by a record of its keys, and a text
\* in ISO 8601 by the sequence of its parts.

\* class PPEViolationType(IntEnum)
PPEViolationType ==
    ("UNSPECIFIED" :> 0) @@ ("NO_HELMET" :> 1) @@ ("NO_SAFETY_VEST" :> 2)
    @@ ("NO_SAFETY_GLASSES" :> 3) @@ ("NO_GLOVES" :> 4)
    @@ ("NO_SAFETY_BOOTS" :> 5) @@ ("NO_EAR_PROTECTION" :> 6)
    @@ ("NO_FACE_MASK" :> 7)

\* class ActivityType(IntEnum)
ActivityType ==
    ("UNSPECIFIED" :> 0) @@ ("WALKING" :> 1) @@ ("STANDING" :> 2)
    @@ ("OPERATING_MACHINERY" :> 3) @@ ("LIFTING" :> 4) @@ ("CLIMBING" :> 5)
    @@ ("RUNNING" :> 6) @@ ("FALLING" :> 7) @@ ("REACHING" :> 8)
    @@ ("CARRYING" :> 9)

\* class AlertSeverity(IntEnum)
AlertSeverity ==
    ("UNSPECIFIED" :> 0) @@ ("INFO" :> 1) @@ ("WARNING" :> 2)
    @@ ("CRITICAL" :> 3) @@ ("EMERGENCY" :> 4)

\* class AlertType(IntEnum)
AlertType ==
    ("UNSPECIFIED" :> 0) @@ ("PPE_VIOLATION" :> 1) @@ ("PPE_MISSING" :> 2)
    @@ ("UNSAFE_ACTIVITY" :> 3) @@ ("RESTRICTED_ZONE_ENTRY" :> 4)
    @@ ("FALL_DETECTED" :> 5) @@ ("UNUSUAL_INACTIVITY" :> 6)
    @@ ("HAZARD_DETECTED" :> 7) @@ ("EQUIPMENT_MALFUNCTION" :> 8)
    @@ ("DEVICE_LOW_BATTERY" :> 9) @@ ("DEVICE_OFFLINE" :> 10)
    @@ ("DEVICE_ERROR" :> 11) @@ ("PATTERN_DETECTED" :> 12)
    @@ ("THRESHOLD_EXCEEDED" :> 13)

\* class AlertStatus(IntEnum)
AlertStatus ==
    ("UNSPECIFIED" :> 0) @@ ("NEW" :> 1) @@ ("ACKNOWLEDGED" :> 2)
    @@ ("IN_PROGRESS" :> 3) @@ ("RESOLVED" :> 4) @@ ("DISMISSED" :> 5)
    @@ ("ESCALATED" :> 6)

\* member.value of an enumeration whose members are the keys of enum
EnumValue(enum, member) == enum[member]

\* EnumClass(n): the member with the value n
EnumMember(enum, n) == CHOOSE member \in DOMAIN enum : enum[member] = n

\* IsoFormat that leaves out the UTC offset
IsoFormatNaive(d) ==
    <<d.date, "T", d.second>>
        \o (IF d.microsecond # 0 THEN <<".", d.microsecond>> ELSE <<>>)

\* datetime.isoformat(): date, "T", time of day, the microseconds when they
\* are not 0, the UTC offset when the datetime is aware
IsoFormat(d) ==
    <<d.date, "T", d.second>>
        \o (IF d.microsecond # 0 THEN <<".", d.microsecond>> ELSE <<>>)
        \o (IF d.utcoffset # None THEN <<"+", d.utcoffset[1]>> ELSE <<>>)

\* datetime.fromisoformat(text)
FromIsoFormat(text) ==
    LET hasMicro == Len(text) >= 5 /\ text[4] = "."
        at == IF hasMicro THEN 6 ELSE 4
        hasOffset == Len(text) >= at + 1 /\ text[at] = "+"
    IN [date |-> text[1],
        second |-> text[3],
        microsecond |-> IF hasMicro THEN text[5] ELSE 0,
        utcoffset |-> IF hasOffset THEN Some(text[at + 1]) ELSE None]

\* Truth value of an optional attribute that holds None, a dataclass instance
\* or a datetime ("if self.zone", "if self.expires_at")
TruthyObject(o) == o # None

\* Truth value of data.get(key) when the key holds null or a JSON object
TruthyDict(j) == j # None /\ DOMAIN j[1] # {}

\* Truth value of data.get(key) when the key holds null or a text
TruthyText(j) == j # None /\ Len(j[1]) > 0

\* json.dumps(...).encode("utf-8") and json.loads(data.decode("utf-8")) of a
\* tree of dicts with text keys, lists, texts, finite numbers, booleans and
\* null
ToBytes(tree) == [encoding |-> "utf-8", json |-> tree]
FromBytes(data) == data.json

\* Alert.to_dict
AlertToDict(self) ==
    [alert_id |-> self.alert_id,
     alert_type |-> EnumValue(AlertType, self.alert_type),
     severity |-> EnumValue(AlertSeverity, self.severity),
     status |-> EnumValue(AlertStatus, self.status),
     title |-> self.title,
     description |-> self.description,
     created_at |-> IsoFormat(self.created_at),
     updated_at |-> IsoFormat(self.updated_at),
     expires_at |-> IF TruthyObject(self.expires_at)
                    THEN Some(IsoFormat(self.expires_at[1])) ELSE None,
     device_id |-> self.device_id,
     worker_id |-> self.worker_id,
     rule_id |-> self.rule_id,
     priority_score |-> self.priority_score,
     source_detection_ids |-> self.source_detection_ids,
     tags |-> self.tags,
     metadata |-> self.metadata]

\* Alert.from_dict
AlertFromDict(data) ==
    [alert_id |-> data.alert_id,
     alert_type |-> EnumMember(AlertType, data.alert_type),
     severity |-> EnumMember(AlertSeverity, data.severity),
     status |-> EnumMember(AlertStatus, data.status),
     title |-> data.title,
     description |-> data.description,
     created_at |-> FromIsoFormat(data.created_at),
     updated_at |-> FromIsoFormat(data.updated_at),
     expires_at |-> IF TruthyText(data.expires_at)
                    THEN Some(FromIsoFormat(data.expires_at[1])) ELSE None,
     device_id |-> data.device_id,
     worker_id |-> data.worker_id,
     rule_id |-> data.rule_id,
     priority_score |-> data.priority_score,
     source_detection_ids |-> data.source_detection_ids,
     tags |-> data.tags,
     metadata |-> data.metadata]

\* BoundingBox.to_dict / from_dict
BoundingBoxToDict(self) ==
    [x_min |-> self.x_min, y_min |-> self.y_min,
     x_max |-> self.x_max, y_max |-> self.y_max]
BoundingBoxFromDict(data) ==
    [x_min |-> data.x_min, y_min |-> data.y_min,
     x_max |-> data.x_max, y_max |-> data.y_max]

\* ConfidenceScore.to_dict / from_dict
ConfidenceScoreToDict(self) ==
    [overall |-> self.overall, breakdown |-> self.breakdown]
ConfidenceScoreFromDict(data) ==
    [overall |-> data.overall, breakdown |-> data.breakdown]

\* PPEViolation.to_dict / from_dict
PPEViolationToDict(self) ==
    [violation_type |-> EnumValue(PPEViolationType, self.violation_type),
     bounding_box |-> BoundingBoxToDict(self.bounding_box),
     confidence |-> ConfidenceScoreToDict(self.confidence),
     worker_id |-> self.worker_id]
PPEViolationFromDict(data) ==
    [violation_type |-> EnumMember(PPEViolationType, data.violation_type),
     bounding_box |-> BoundingBoxFromDict(data.bounding_box),
     confidence |-> ConfidenceScoreFromDict(data.confidence),
     worker_id |-> data.worker_id]

\* ActivityDetection.to_dict / from_dict
ActivityDetectionToDict(self) ==
    [activity_type |-> EnumValue(ActivityType, self.activity_type),
     bounding_box |-> BoundingBoxToDict(self.bounding_box),
     confidence |-> ConfidenceScoreToDict(self.confidence),
     duration_ms |-> self.duration_ms,
     worker_id |-> self.worker_id]
ActivityDetectionFromDict(data) ==
    [activity_type |-> EnumMember(ActivityType, data.activity_type),
     bounding_box |-> BoundingBoxFromDict(data.bounding_box),
     confidence |-> ConfidenceScoreFromDict(data.confidence),
     duration_ms |-> data.duration_ms,
     worker_id |-> data.worker_id]

\* Zone.to_dict / from_dict
ZoneToDict(self) ==
    [zone_id |-> self.zone_id,
     zone_name |-> self.zone_name,
     zone_type |-> self.zone_type,
     required_ppe |-> [k \in DOMAIN self.required_ppe |->
                          EnumValue(PPEViolationType, self.required_ppe[k])]]
ZoneFromDict(data) ==
    [zone_id |-> data.zone_id,
     zone_name |-> data.zone_name,
     zone_type |-> data.zone_type,
     required_ppe |-> [k \in DOMAIN data.required_ppe |->
                          EnumMember(PPEViolationType, data.required_ppe[k])]]

\* DetectionEvent.to_dict
DetectionEventToDict(self) ==
    [event_id |-> self.event_id,
     frame_id |-> self.frame_id,
     device_id |-> self.device_id,
     timestamp |-> IsoFormat(self.timestamp),
     model_id |-> self.model_id,
     model_version |-> self.model_version,
     processing_latency_ms |-> self.processing_latency_ms,
     ppe_violations |-> [k \in DOMAIN self.ppe_violations |->
                            PPEViolationToDict(self.ppe_violations[k])],
     activity_detections |-> [k \in DOMAIN self.activity_detections |->
                            ActivityDetectionToDict(self.activity_detections[k])],
     zone |-> IF TruthyObject(self.zone)
              THEN Some(ZoneToDict(self.zone[1])) ELSE None,
     metadata |-> self.metadata]

\* DetectionEvent.from_dict
DetectionEventFromDict(data) ==
    [event_id |-> data.event_id,
     frame_id |-> data.frame_id,
     device_id |-> data.device_id,
     timestamp |-> FromIsoFormat(data.timestamp),
     model_id |-> data.model_id,
     model_version |-> data.model_version,
     processing_latency_ms |-> data.processing_latency_ms,
     ppe_violations |-> [k \in DOMAIN data.ppe_violations |->
                            PPEViolationFromDict(data.ppe_violations[k])],
     activity_detections |-> [k \in DOMAIN data.activity_detections |->
                            ActivityDetectionFromDict(data.activity_detections[k])],
     zone |-> IF TruthyDict(data.zone)
              THEN Some(ZoneFromDict(data.zone[1])) ELSE None,
     metadata |-> data.metadata]

\* GeoLocation.to_dict / from_dict
GeoLocationToDict(self) ==
    [latitude |-> self.latitude, longitude |-> self.longitude,
     accuracy |-> self.accuracy, altitude |-> self.altitude]
GeoLocationFromDict(data) ==
    [latitude |-> data.latitude, longitude |-> data.longitude,
     accuracy |-> data.accuracy, altitude |-> data.altitude]

\* IMUData.to_dict / from_dict
IMUDataToDict(self) ==
    [accel_x |-> self.accel_x, accel_y |-> self.accel_y,
     accel_z |-> self.accel_z, gyro_x |-> self.gyro_x,
     gyro_y |-> self.gyro_y, gyro_z |-> self.gyro_z,
     mag_x |-> self.mag_x, mag_y |-> self.mag_y, mag_z |-> self.mag_z]
IMUDataFromDict(data) ==
    [accel_x |-> data.accel_x, accel_y |-> data.accel_y,
     accel_z |-> data.accel_z, gyro_x |-> data.gyro_x,
     gyro_y |-> data.gyro_y, gyro_z |-> data.gyro_z,
     mag_x |-> data.mag_x, mag_y |-> data.mag_y, mag_z |-> data.mag_z]

\* DeviceHealth.to_dict / from_dict
DeviceHealthToDict(self) ==
    [battery_level |-> self.battery_level,
     temperature_celsius |-> self.temperature_celsius,
     storage_remaining_bytes |-> self.storage_remaining_bytes,
     wifi_signal_dbm |-> self.wifi_signal_dbm,
     is_charging |-> self.is_charging]
DeviceHealthFromDict(data) ==
    [battery_level |-> data.battery_level,
     temperature_celsius |-> data.temperature_celsius,
     storage_remaining_bytes |-> data.storage_remaining_bytes,
     wifi_signal_dbm |-> data.wifi_signal_dbm,
     is_charging |-> data.is_charging]

\* FrameMetadata.to_dict
FrameMetadataToDict(self) ==
    [frame_id |-> self.frame_id,
     device_id |-> self.device_id,
     device_type |-> self.device_type,
     device_firmware_version |-> self.device_firmware_version,
     capture_timestamp |-> IsoFormat(self.capture_timestamp),
     upload_timestamp |-> IsoFormat(self.upload_timestamp),
     resolution |-> self.resolution,
     format |-> self.format,
     width |-> self.width,
     height |-> self.height,
     frame_number |-> self.frame_number,
     frame_data_uri |-> self.frame_data_uri,
     frame_size_bytes |-> self.frame_size_bytes,
     session_id |-> self.session_id,
     location |-> IF TruthyObject(self.location)
                  THEN Some(GeoLocationToDict(self.location[1])) ELSE None,
     imu_data |-> IF TruthyObject(self.imu_data)
                  THEN Some(IMUDataToDict(self.imu_data[1])) ELSE None,
     device_health |-> IF TruthyObject(self.device_health)
                       THEN Some(DeviceHealthToDict(self.device_health[1]))
                       ELSE None,
     brightness |-> self.brightness,
     blur_score |-> self.blur_score,
     is_occluded |-> self.is_occluded,
     metadata |-> self.metadata]

\* FrameMetadata.from_dict
FrameMetadataFromDict(data) ==
    [frame_id |-> data.frame_id,
     device_id |-> data.device_id,
     device_type |-> data.device_type,
     device_firmware_version |-> data.device_firmware_version,
     capture_timestamp |-> FromIsoFormat(data.capture_timestamp),
     upload_timestamp |-> FromIsoFormat(data.upload_timestamp),
     resolution |-> data.resolution,
     format |-> data.format,
     width |-> data.width,
     height |-> data.height,
     frame_number |-> data.frame_number,
     frame_data_uri |-> data.frame_data_uri,
     frame_size_bytes |-> data.frame_size_bytes,
     session_id |-> data.session_id,
     location |-> IF TruthyDict(data.location)
                  THEN Some(GeoLocationFromDict(data.location[1])) ELSE None,
     imu_data |-> IF TruthyDict(data.imu_data)
                  THEN Some(IMUDataFromDict(data.imu_data[1])) ELSE None,
     device_health |-> IF TruthyDict(data.device_health)
                       THEN Some(DeviceHealthFromDict(data.device_health[1]))
                       ELSE None,
     brightness |-> data.brightness,
     blur_score |-> data.blur_score,
     is_occluded |-> data.is_occluded,
     metadata |-> data.metadata]

\* to_bytes and from_bytes of the three message classes
SchemaToBytes(cls, self) ==
    CASE cls = "Alert" -> ToBytes(AlertToDict(self))
      [] cls = "DetectionEvent" -> ToBytes(DetectionEventToDict(self))
      [] cls = "FrameMetadata" -> ToBytes(FrameMetadataToDict(self))
SchemaFromBytes(cls, data) ==
    CASE cls = "Alert" -> AlertFromDict(FromBytes(data))
      [] cls = "DetectionEvent" -> DetectionEventFromDict(FromBytes(data))
      [] cls = "FrameMetadata" -> FrameMetadataFromDict(FromBytes(data))

\* The values the codec is run on: naive and aware datetimes with and
\* without microseconds, absent, empty and non-empty optional values, empty
\* and non-empty lists and maps, every member of every enumeration.
Datetimes ==
    {[date |-> "2026-01-31", second |-> s, microsecond |-> u, utcoffset |-> z] :
        s \in {0, 86399}, u \in {0, 250000}, z \in {None, Some(0), Some(60)}}
OptTexts == {None, Some(""), Some("w1")}
OptNumbers == {None, Some(0), Some(1500)}
OptBooleans == {None, Some(FALSE), Some(TRUE)}
TextMaps == {{}, {<<"site", "A">>, <<"shift", "">>}}

Alert(alert_type, severity, status, created_at, expires_at, worker_id, source_detection_ids, metadata) ==
    [alert_id |-> "a1", alert_type |-> alert_type, severity |-> severity,
     status |-> status, title |-> "No helmet", description |-> "",
     created_at |-> created_at, updated_at |-> created_at,
     expires_at |-> expires_at, device_id |-> "dev1", worker_id |-> worker_id,
     rule_id |-> "r1", priority_score |-> 0,
     source_detection_ids |-> source_detection_ids,
     tags |-> source_detection_ids, metadata |-> metadata]

AlertValues ==
    {Alert(t, "CRITICAL", "NEW", d, e, w, <<"d1", "d2">>, {}) :
        t \in DOMAIN AlertType, d \in {CHOOSE x \in Datetimes : TRUE},
        e \in {None} \cup {Some(x) : x \in Datetimes}, w \in OptTexts}
    \cup
    {Alert("PPE_MISSING", sv, st, d, None, None, ids, md) :
        sv \in DOMAIN AlertSeverity, st \in DOMAIN AlertStatus,
        d \in Datetimes, ids \in {<<>>, <<"d1", "d2">>}, md \in TextMaps}

BoundingBoxes == {[x_min |-> 0, y_min |-> 125, x_max |-> 1000, y_max |-> 500]}
ConfidenceScores ==
    {[overall |-> 875, breakdown |-> b] : b \in {{}, {<<"helmet", 900>>}}}

PPEViolations ==
    {[violation_type |-> t, bounding_box |-> b, confidence |-> c,
      worker_id |-> w] :
        t \in DOMAIN PPEViolationType, b \in BoundingBoxes,
        c \in ConfidenceScores, w \in {None, Some("w1")}}

ActivityDetections ==
    {[activity_type |-> t, bounding_box |-> b, confidence |-> c,
      duration_ms |-> n, worker_id |-> None] :
        t \in DOMAIN ActivityType, b \in BoundingBoxes,
        c \in {CHOOSE x \in ConfidenceScores : TRUE}, n \in OptNumbers}

Zones ==
    {[zone_id |-> "z1", zone_name |-> "Dock", zone_type |-> "",
      required_ppe |-> r] : r \in {<<>>, <<"NO_HELMET", "NO_GLOVES">>}}

DetectionEvent(timestamp, ppe_violations, activity_detections, zone) ==
    [event_id |-> "e1", frame_id |-> "fa", device_id |-> "dev1",
     timestamp |-> timestamp, model_id |-> "m", model_version |-> "1",
     processing_latency_ms |-> 0, ppe_violations |-> ppe_violations,
     activity_detections |-> activity_detections, zone |-> zone,
     metadata |-> {}]

DetectionEventValues ==
    {DetectionEvent(d, vs, <<>>, z) :
        d \in {x \in Datetimes : x.second = 0},
        vs \in {<<>>} \cup {<<v>> : v \in PPEViolations},
        z \in {None} \cup {Some(x) : x \in Zones}}
    \cup
    {DetectionEvent(d, <<CHOOSE v \in PPEViolations : TRUE>>, as, z) :
        d \in {x \in Datetimes : x.second = 0},
        as \in {<<a, a>> : a \in ActivityDetections},
        z \in {None} \cup {Some(x) : x \in Zones}}

GeoLocations ==
    {[latitude |-> 48857, longitude |-> 2352, accuracy |-> 0, altitude |-> n] :
        n \in OptNumbers}
IMUDatas ==
    {[accel_x |-> 0, accel_y |-> 0, accel_z |-> 9810, gyro_x |-> 0,
      gyro_y |-> 0, gyro_z |-> 0, mag_x |-> n, mag_y |-> None, mag_z |-> None] :
        n \in OptNumbers}
DeviceHealths ==
    {[battery_level |-> 0, temperature_celsius |-> 36500,
      storage_remaining_bytes |-> 0, wifi_signal_dbm |-> 0,
      is_charging |-> c] : c \in BOOLEAN}

FrameMetadataValues ==
    {[frame_id |-> "fa", device_id |-> "dev1",
      device_type |-> "SMART_GLASSES_V1", device_firmware_version |-> "1.0.0",
      capture_timestamp |-> d, upload_timestamp |-> d, resolution |-> "1080P",
      format |-> "JPEG", width |-> 1920, height |-> 1080, frame_number |-> 0,
      frame_data_uri |-> "", frame_size_bytes |-> 0, session_id |-> "s1",
      location |-> g, imu_data |-> i, device_health |-> h, brightness |-> b,
      blur_score |-> None, is_occluded |-> o, metadata |-> md] :
        d \in {x \in Datetimes : x.second = 0},
        g \in {None} \cup {Some(x) : x \in GeoLocations},
        i \in {None} \cup {Some(x) : x \in IMUDatas},
        h \in {None} \cup {Some(x) : x \in DeviceHealths},
        b \in OptNumbers, o \in OptBooleans, md \in {{}}}

SchemaValues(cls) ==
    CASE cls = "Alert" -> AlertValues
      [] cls = "DetectionEvent" -> DetectionEventValues
      [] cls = "FrameMetadata" -> FrameMetadataValues

\* A value of one of the message classes is constructed
CodecChoose(cls, x) ==
    /\ codec_pc = "idle"
    /\ codec_pc' = "chosen"
    /\ codec_cls' = cls
    /\ codec_x' = x
    /\ UNCHANGED <<codec_bytes, codec_y>>
    /\ UNCHANGED <<inferenceVars, consumerVars>>

\* x.to_bytes()
CodecEncode ==
    /\ codec_pc = "chosen"
    /\ codec_pc' = "encoded"
    /\ codec_bytes' = SchemaToBytes(codec_cls, codec_x)
    /\ UNCHANGED <<codec_cls, codec_x, codec_y>>
    /\ UNCHANGED <<inferenceVars, consumerVars>>

\* EnumClass(n) finds a member: the enumerations define no _missing_, and
\* the call raises ValueError for any other n
EnumKnown(enum, n) == \E member \in DOMAIN enum : enum[member] = n

\* from_dict raises ValueError: one of its enumeration calls gets an integer
\* that is no member's value
DecodeRaises(cls, data) ==
    CASE cls = "Alert" ->
           \/ ~EnumKnown(AlertType, data.alert_type)
           \/ ~EnumKnown(AlertSeverity, data.severity)
           \/ ~EnumKnown(AlertStatus, data.status)
      [] cls = "DetectionEvent" ->
           \/ \E k \in DOMAIN data.ppe_violations :
                 ~EnumKnown(PPEViolationType, data.ppe_violations[k].violation_type)
           \/ \E k \in DOMAIN data.activity_detections :
                 ~EnumKnown(ActivityType, data.activity_detections[k].activity_type)
           \/ /\ TruthyDict(data.zone)
              /\ \E k \in DOMAIN data.zone[1].required_ppe :
                    ~EnumKnown(PPEViolationType, data.zone[1].required_ppe[k])
      [] OTHER -> FALSE

\* Integers that are no member's value in any of the enumerations
ForeignIntegers == {-1, 99}

\* A message of another writer arrives: the bytes of a message in which the
\* enumeration field carries the integer n
CodecReceive(field, n) ==
    /\ codec_pc = "encoded"
    /\ LET data == FromBytes(codec_bytes)
       IN CASE field = "violation_type" ->
                 /\ codec_cls = "DetectionEvent"
                 /\ data.ppe_violations # <<>>
                 /\ codec_bytes' = ToBytes([data EXCEPT
                                       !.ppe_violations[1].violation_type = n])
            [] OTHER ->
                 /\ codec_cls = "Alert"
                 /\ codec_bytes' = ToBytes([data EXCEPT ![field] = n])
    /\ UNCHANGED <<codec_pc, codec_cls, codec_x, codec_y>>
    /\ UNCHANGED <<inferenceVars, consumerVars>>

\* cls.from_bytes(data), as IncomingMessage.decode_json does
CodecDecode ==
    /\ codec_pc = "encoded"
    /\ codec_pc' = "decoded"
    /\ codec_y' = IF DecodeRaises(codec_cls, FromBytes(codec_bytes))
                  THEN [raised |-> "ValueError"]
                  ELSE SchemaFromBytes(codec_cls, codec_bytes)
    /\ UNCHANGED <<codec_cls, codec_x, codec_bytes>>
    /\ UNCHANGED <<inferenceVars, consumerVars>>

\* The steps of the batch loop tasks
LoopNext ==
    \/ \E t \in DOMAIN tasks : LoopBegin(t)
    \/ \E t \in DOMAIN tasks, c \in WakeCauses : LoopWake(t, c)
    \/ \E t \in DOMAIN tasks : PredictReturn(t)
    \/ \E t \in DOMAIN tasks, e \in DetectorErrors : PredictRaise(t, e)

\* The batcher's operations and the steps of its loop, for callers that make
\* at most maxStarts start() and maxStops stop() calls.
BatcherNext(maxStarts, maxStops) ==
    \/ Start(maxStarts)
    \/ StopCall(maxStops)
    \/ \E s \in 1..maxStops : StopResume(s)
    \/ \E f \in FrameChoices : Submit(f)
    \/ \E i \in Items : CallerCancel(i)
    \/ LoopNext

\* The publisher's operations, the executor's send and the broker client's
\* delivery callbacks.
PublisherNext ==
    \/ \E t \in DOMAIN tasks : PublishCheck(t)
    \/ \E t \in DOMAIN tasks : PublishCount(t)
    \/ \E t \in DOMAIN tasks : PublishStore(t)
    \/ \E t \in DOMAIN tasks, o \in {"accepted", "KafkaError", "Exception"} :
          SendDone(t, o)
    \/ Connect
    \/ DisconnectBegin
    \/ DisconnectEnd
    \/ \E m \in inflight : CallbackBegin(m)
    \/ CallbackEnd

\* A batcher constructed with kafka_producer=None, driven by any caller.
BatcherInit == Init /\ ~has_producer
SpecBatcher == BatcherInit /\ [][BatcherNext(MaxStarts, MaxStops)]_vars

\* The same batcher with callers that overlap their start() and stop() calls:
\* one more of each.
OverlapNext == BatcherNext(MaxStarts + 1, MaxStops + 1)
SpecOverlap == BatcherInit /\ [][OverlapNext]_vars

\* The batcher with callers that submit nothing once stop() has been called.
QuiesceNext ==
    \/ Start(MaxStarts)
    \/ StopCall(MaxStops)
    \/ \E s \in 1..MaxStops : StopResume(s)
    \/ \E f \in FrameChoices : stops = <<>> /\ Submit(f)
    \/ LoopNext
SpecQuiesce == BatcherInit /\ [][QuiesceNext]_vars

\* A started batcher without publisher whose callers submit frames of one
\* stream faster than the detector answers: one more submission than ten
\* batches hold.
MaxBacklog == 10 * MaxBatchSize + 1
BacklogNext ==
    \/ Start(1)
    \/ running /\ SubmitUpTo(MaxBacklog, FrameIds[1])
    \/ \E t \in DOMAIN tasks : LoopBegin(t)
    \/ \E t \in DOMAIN tasks, c \in WakeCauses : LoopWake(t, c)
    \/ \E t \in DOMAIN tasks : PredictReturn(t)
SpecBacklog == BatcherInit /\ [][BacklogNext]_vars

\* The ingest path of the running service: a publisher is constructed, the
\* batcher is started, requests are submitted, batched, predicted, published
\* and answered, while the publisher connects and disconnects and the broker
\* acknowledges, rejects or stays silent.
PipelineInit == Init /\ has_producer
PipelineNext ==
    \/ Start(1)
    \/ \E f \in FrameChoices : Submit(f)
    \/ LoopNext
    \/ PublisherNext
SpecPipeline == PipelineInit /\ [][PipelineNext]_vars

\* The ingest path with callers that choose frame ids among KeyedFrameIds
\* (the empty string is what an unset request.frame_id arrives as) and may
\* name a worker, and a publisher that stays connected.
KeyedFrameIds == {"", "fa"}
WorkerIds == {"", "w1"}
KeyedNext ==
    \/ Start(1)
    \/ \E f \in KeyedFrameIds, w \in WorkerIds : SubmitAs(MaxSubmits, f, w, "")
    \/ LoopNext
    \/ \E t \in DOMAIN tasks : PublishCheck(t)
    \/ \E t \in DOMAIN tasks : PublishCount(t)
    \/ \E t \in DOMAIN tasks : PublishStore(t)
    \/ \E t \in DOMAIN tasks, o \in {"accepted", "KafkaError", "Exception"} :
          SendDone(t, o)
    \/ Connect
    \/ \E m \in inflight : CallbackBegin(m)
    \/ CallbackEnd
SpecKeyed == PipelineInit /\ [][KeyedNext]_vars

\* The ingest path of a service that has connected its publisher before it
\* starts the batcher, with callers that may be cancelled while they wait.
CancelNext ==
    \/ Connect
    \/ is_connected /\ Start(1)
    \/ \E f \in FrameChoices : Submit(f)
    \/ \E i \in Items : CallerCancel(i)
    \/ LoopNext
    \/ \E t \in DOMAIN tasks : PublishCheck(t)
    \/ \E t \in DOMAIN tasks : PublishCount(t)
    \/ \E t \in DOMAIN tasks : PublishStore(t)
    \/ \E t \in DOMAIN tasks, o \in {"accepted", "KafkaError", "Exception"} :
          SendDone(t, o)
    \/ \E m \in inflight : CallbackBegin(m)
    \/ CallbackEnd
SpecCancel == PipelineInit /\ [][CancelNext]_vars

\* The batcher over any implementation of BaseDetector: the detector may
\* return a list that is shorter or longer than the batch.
AnyDetectorNext ==
    \/ Start(1)
    \/ \E f \in FrameChoices : Submit(f)
    \/ LoopNext
    \/ \E t \in DOMAIN tasks, n \in 0..(MaxBatchSize + 1) : PredictReturnLength(t, n)
SpecAnyDetector == BatcherInit /\ [][AnyDetectorNext]_vars

\* The publisher alone, used by callers that call publish_detection
\* themselves, with a broker that may be unreachable when connect() is called.
DirectNext ==
    \/ PublishDetectionCall
    \/ PublishDetectionCount
    \/ PublishDetectionStore
    \/ \E o \in {"accepted", "KafkaError", "Exception"} : PublishDetectionSend(o)
    \/ ConnectFail
PublisherAloneNext ==
    \/ DirectNext
    \/ Connect
    \/ DisconnectBegin
    \/ DisconnectEnd
    \/ \E m \in inflight : CallbackBegin(m)
    \/ CallbackEnd
SpecPublisher == PipelineInit /\ [][PublisherAloneNext]_vars

\* The service of main.py: lifespan drives the detector, the publisher, the
\* batcher and the gRPC server; requests arrive while the server serves; the
\* health interfaces are probed.
ServiceNext ==
    \/ \E ok \in BOOLEAN : LifeLoad(ok)
    \/ \E ok \in BOOLEAN : LifeWarmup(ok)
    \/ LifeConnectCall /\ Connect
    \/ LifeConnectCall /\ ConnectFail
    \/ LifeConnected
    \/ LifeServicerStartCall /\ Start(1)
    \/ LifeServicerStarted
    \/ \E ok \in BOOLEAN : LifeRpcStart(ok)
    \/ LifeShutdown
    \/ LifeRpcStop
    \/ LifeServicerStopCall /\ StopCall(1)
    \/ \E s \in {1} : StopResume(s)
    \/ LifeServicerStopped
    \/ LifeDisconnectCall /\ DisconnectBegin
    \/ DisconnectEnd
    \/ LifeDisconnected
    \/ LifeUnload
    \/ HealthCheck
    \/ health_check
    \/ \E f \in FrameChoices : svc.serving /\ SubmitUpTo(MaxRequests, f)
    \/ LoopNext
    \/ \E t \in DOMAIN tasks : PublishCheck(t)
    \/ \E t \in DOMAIN tasks : PublishCount(t)
    \/ \E t \in DOMAIN tasks : PublishStore(t)
    \/ \E t \in DOMAIN tasks, o \in {"accepted", "KafkaError", "Exception"} :
          SendDone(t, o)
    \/ \E m \in inflight : CallbackBegin(m)
    \/ CallbackEnd
SpecService == PipelineInit /\ [][ServiceNext]_vars

\* Batch requests of up to MaxBatchItems items
BatchRequests ==
    UNION {[1..n -> {"image", "undecodable"}] : n \in 0..MaxBatchItems}
BatchPathNext ==
    \/ \E requests \in BatchRequests : InferBatchCall(requests)
    \/ \E outcome \in {"result", "exception", "cancelled"} : InferBatchGather(outcome)
    \/ InferBatchReturn
SpecBatchPath == BatcherInit /\ [][BatchPathNext]_vars

\* The alert publisher, its callers and the broker.
AlertNext ==
    \/ AlertConnect
    \/ AlertDisconnectBegin
    \/ AlertDisconnectEnd
    \/ PublishAlertCall
    \/ \E o \in {"confirmed", "KafkaTimeoutError", "KafkaError", "Exception"} :
          PublishAlertDone(o)
SpecAlert == BatcherInit /\ [][AlertNext]_vars

\* ------------------------------------------------------ dead-letter queue
\* Bytes are sequences of numbers 0..255, texts are sequences of characters.
\* The text base64.b64encode(...).decode("utf-8") is the sequence of its
\* symbols: 0..63 for the digits of the alphabet, 64 for the padding "=".

\* producer.py send_to_dlq: "error[:256]"
ErrorReasonLimit == 256

\* B64Encode that leaves out the padding
RECURSIVE B64EncodeUnpadded(_)
B64EncodeUnpadded(b) ==
    IF Len(b) = 0 THEN <<>>
    ELSE IF Len(b) = 1 THEN <<b[1] \div 4, (b[1] % 4) * 16>>
    ELSE IF Len(b) = 2
         THEN <<b[1] \div 4, (b[1] % 4) * 16 + b[2] \div 16, (b[2] % 16) * 4>>
    ELSE <<b[1] \div 4, (b[1] % 4) * 16 + b[2] \div 16,
           (b[2] % 16) * 4 + b[3] \div 64, b[3] % 64>>
         \o B64EncodeUnpadded(SubSeq(b, 4, Len(b)))

\* base64.b64encode(b).decode("utf-8")
RECURSIVE B64Encode(_)
B64Encode(b) ==
    IF Len(b) = 0 THEN <<>>
    ELSE IF Len(b) = 1 THEN <<b[1] \div 4, (b[1] % 4) * 16, 64, 64>>
    ELSE IF Len(b) = 2
         THEN <<b[1] \div 4, (b[1] % 4) * 16 + b[2] \div 16, (b[2] % 16) * 4, 64>>
    ELSE <<b[1] \div 4, (b[1] % 4) * 16 + b[2] \div 16,
           (b[2] % 16) * 4 + b[3] \div 64, b[3] % 64>>
         \o B64Encode(SubSeq(b, 4, Len(b)))

\* text[:n]
Truncate(text, n) == SubSeq(text, 1, IF Len(text) < n THEN Len(text) ELSE n)

\* _convert_message: "payload=msg.value() or b''"
ConvertPayload(value) == IF value = None \/ value = Some(<<>>) THEN <<>> ELSE value[1]

\* NierProducer.send_to_dlq: the envelope and the headers handed to send();
\* send() encodes each header value as UTF-8.  The key is a fresh UUID and
\* the timestamp the time of the call.
SendToDlq(original_topic, original_message, error) ==
    [value |-> ToBytes([original_topic |-> original_topic,
                        original_message_base64 |-> B64Encode(original_message),
                        error |-> error,
                        timestamp |-> "utcnow"]),
     headers |-> [message_type |-> "dead_letter",
                  original_topic |-> original_topic,
                  error_reason |-> Truncate(error, ErrorReasonLimit)]]

\* The topic the consumer reads, the value of the record at offset o, and the
\* text str(e) of the exception its handler raises
SourceTopic == "frames"
RecordValue(o) ==
    CASE o = 0 -> Some(<<255>>)
      [] o = 1 -> Some(<<77, 97>>)
      [] o = 2 -> Some(<<0, 16, 131, 250>>)
      [] o = 3 -> None
      [] OTHER -> Some(<<77, 97, 110>>)
ErrorText(o) ==
    CASE o = 0 -> [i \in 1..(ErrorReasonLimit + 1) |-> "e"]
      [] o = 1 -> [i \in 1..ErrorReasonLimit |-> "e"]
      [] o = 2 -> <<>>
      [] OTHER -> [i \in 1..(ErrorReasonLimit + 44) |-> "e"]

\* run: "self._dlq_producer.send_to_dlq(incoming.metadata.topic,
\* incoming.payload, str(e))" for the DLQ publish d
DlqMessage(d) ==
    SendToDlq(SourceTopic, ConvertPayload(RecordValue(d.offset)), ErrorText(d.offset))

\* A consumer group with one NierConsumer at a time, its handler, the thread
\* that calls shutdown(), and the broker.
ConsumerNext ==
    \/ \E d, a \in BOOLEAN : ConsumerNew(d, a)
    \/ ConsumerRestart
    \/ RunCall
    \/ Shutdown
    \/ LoopTop
    \/ \E kind \in {"none", "error", "msg", "undecodable"} : PollReturn(kind)
    \/ \E ok, dlq_ok \in BOOLEAN : Handle(ok, dlq_ok)
    \/ \E commit_ok \in BOOLEAN : RunExit(commit_ok)
    \/ \E ok \in BOOLEAN : AsyncCommitDone(ok)
    \/ AutoCommit
SpecConsumer == BatcherInit /\ [][ConsumerNext]_vars

\* The same consumer group when the asynchronous commit after a handled
\* record can raise.
CommitNext ==
    \/ \E d, a \in BOOLEAN : ConsumerNew(d, a)
    \/ ConsumerRestart
    \/ RunCall
    \/ Shutdown
    \/ LoopTop
    \/ \E kind \in {"none", "error", "msg", "undecodable"} : PollReturn(kind)
    \/ \E ok, commit_ok, dlq_ok \in BOOLEAN : HandleCommit(ok, commit_ok, dlq_ok)
    \/ \E commit_ok \in BOOLEAN : RunExit(commit_ok)
    \/ \E ok \in BOOLEAN : AsyncCommitDone(ok)
    \/ AutoCommit
SpecCommit == BatcherInit /\ [][CommitNext]_vars

\* Values of the message classes going through the codec
CodecNext ==
    \/ \E cls \in {"Alert", "DetectionEvent", "FrameMetadata"} :
          \E x \in SchemaValues(cls) : CodecChoose(cls, x)
    \/ CodecEncode
    \/ CodecDecode
SpecCodec == BatcherInit /\ [][CodecNext]_vars

\* The codec on messages of this library and of other writers
ForeignNext ==
    \/ CodecNext
    \/ \E field \in {"alert_type", "severity", "status", "violation_type"} :
          \E n \in ForeignIntegers : CodecReceive(field, n)
SpecForeign == BatcherInit /\ [][ForeignNext]_vars

\* What the event loop and the executor guarantee: the service's startup
\* starts the batcher, a loop task that can run does run, the wait of the
\* loop ends (by the signal or by the timer), a predict call ends, and a
\* stop() waiting for a finished task resumes.
BatcherFairnessFor(maxStarts, maxStops) ==
    /\ WF_vars(tasks = <<>> /\ Start(maxStarts))
    /\ \A t \in 1..maxStarts :
          /\ WF_vars(LoopBegin(t))
          /\ WF_vars(\E c \in WakeCauses : LoopWake(t, c))
          /\ WF_vars(PredictReturn(t) \/ \E e \in DetectorErrors : PredictRaise(t, e))
    /\ \A s \in 1..maxStops : WF_vars(StopResume(s))
BatcherFairness == BatcherFairnessFor(MaxStarts, MaxStops)
FairSpecBatcher == SpecBatcher /\ BatcherFairness
FairSpecOverlap == SpecOverlap /\ BatcherFairnessFor(MaxStarts + 1, MaxStops + 1)

\* Everything together
Next ==
    \/ BatcherNext(MaxStarts + 1, MaxStops + 1)
    \/ PublisherNext
    \/ DirectNext
    \/ AlertNext
Spec == Init /\ [][Next]_vars

\* ------------------------------------------------------------ properties
InBatch(i, batch) == \E k \in DOMAIN batch : batch[k] = i

\* C1: every batch handed to Detector.predict holds at least 1 and at most
\* max_batch_size submissions; predict is never called with an empty batch.
C1_BatchSizeBound ==
    /\ \A b \in DOMAIN dispatched : Len(dispatched[b]) \in 1..MaxBatchSize
    /\ \A t \in DOMAIN tasks :
          tasks[t].pc = "predict" => Len(tasks[t].batch) \in 1..MaxBatchSize

\* C1 witness: a full batch is in the detector while more submissions wait in the queue
C1_Witness ==
    \E t \in DOMAIN tasks :
        /\ tasks[t].pc = "predict"
        /\ Len(tasks[t].batch) = MaxBatchSize
        /\ queue # <<>>

\* C3: a future resolved with a result holds the result the detector built
\* for its own submission (same frame id, same timestamp), and the results a
\* task holds are index-aligned with its batch.
C3_ResultCorrelation ==
    /\ \A i \in DOMAIN fut :
          fut[i].state = "result" =>
              /\ fut[i].frame_id = items[i].frame_id
              /\ fut[i].timestamp_ms = items[i].timestamp_ms
    /\ \A t \in DOMAIN tasks :
          tasks[t].pc = "send" =>
              /\ Len(tasks[t].results) = Len(tasks[t].batch)
              /\ \A j \in DOMAIN tasks[t].batch :
                    /\ tasks[t].results[j].frame_id
                           = items[tasks[t].batch[j]].frame_id
                    /\ tasks[t].results[j].timestamp_ms
                           = items[tasks[t].batch[j]].timestamp_ms

\* C3 witness: two submissions with different frame ids went through one batch, one of
\* them was published, and both callers have their result
C3_Witness ==
    \E b \in DOMAIN dispatched : \E i, j \in DOMAIN fut :
        /\ InBatch(i, dispatched[b]) /\ InBatch(j, dispatched[b])
        /\ items[i].frame_id # items[j].frame_id
        /\ fut[i].state = "result" /\ fut[j].state = "result"
        /\ pubret[i] = "true"

\* every submission of a batch whose predict call raised e is failed with e
\* (or was cancelled before), and only submissions of such a batch carry e
C6_FailedBatch ==
    /\ \A b \in DOMAIN dispatched :
          predicted[b] \in DetectorErrors =>
              \A i \in DOMAIN fut :
                  InBatch(i, dispatched[b]) =>
                      \/ fut[i].state = "cancelled"
                      \/ fut[i].state = "exception" /\ fut[i].err = predicted[b]
    /\ \A i \in DOMAIN fut :
          fut[i].state = "exception" /\ fut[i].err \in DetectorErrors =>
              \E b \in DOMAIN dispatched :
                  InBatch(i, dispatched[b]) /\ predicted[b] = fut[i].err

\* a loop task ends only when _running is false
C6_LoopSurvives ==
    \A t \in DOMAIN tasks :
        tasks[t].pc # "done" /\ tasks'[t].pc = "done" => ~running

\* C6: when predict raised e for a batch, every submission of the batch that
\* was not resolved before is failed with e, no submission outside a failed
\* batch is failed with a detector error, and a loop task ends only when
\* _running is false (never because of the failure).
C6_DetectorFailureIsolated == []C6_FailedBatch /\ [][C6_LoopSurvives]_vars

\* C6 witness: a batch of two failed with the detector's error, and a submission
\* dispatched in a later batch got its result
C6_Witness ==
    \E b, c \in DOMAIN dispatched :
        /\ b < c
        /\ predicted[b] \in DetectorErrors
        /\ Len(dispatched[b]) = 2
        /\ \A k \in DOMAIN dispatched[b] :
              fut[dispatched[b][k]].state = "exception"
        /\ predicted[c] = "returned"
        /\ fut[dispatched[c][1]].state = "result"

\* C7: submissions are dispatched in the order they were enqueued (items are
\* numbered in enqueue order): an earlier submission is in an earlier batch,
\* or in the same batch at a lower index; what is still queued is in enqueue
\* order and was enqueued after everything dispatched.
C7_Fifo ==
    /\ \A b, c \in DOMAIN dispatched :
          \A j \in DOMAIN dispatched[b], k \in DOMAIN dispatched[c] :
              dispatched[b][j] < dispatched[c][k] =>
                  b < c \/ (b = c /\ j < k)
    /\ \A j, k \in DOMAIN queue : j < k => queue[j] < queue[k]
    /\ \A b \in DOMAIN dispatched :
          \A j \in DOMAIN dispatched[b], k \in DOMAIN queue :
              dispatched[b][j] < queue[k]

\* C7 witness: three submissions went out as a batch of two followed by a batch of one
C7_Witness ==
    /\ Len(dispatched) = 2
    /\ Len(dispatched[1]) = 2
    /\ Len(dispatched[2]) = 1
    /\ Len(items) = 3

\* C8: the pending count never exceeds max_pending (and never goes negative)
C8_PendingBound == pending_messages \in 0..MaxPending

\* C8 witness: the broker holds max_pending unacknowledged messages, the counter is at
\* its maximum, and a loop task is in the middle of a batch
C8_Witness ==
    /\ pending_messages = MaxPending
    /\ Cardinality(inflight) = MaxPending
    /\ \E i \in DOMAIN pubret : pubret[i] = "dropped"

\* a dropped submission was never handed to the broker client and its future
\* holds its own result (unless its caller was cancelled)
C9_DroppedKeepsReply ==
    \A i \in DOMAIN pubret :
        pubret[i] = "dropped" =>
            /\ ~InBatch(i, sent)
            /\ \/ fut[i].state = "cancelled"
               \/ /\ fut[i].state = "result"
                  /\ fut[i].frame_id = items[i].frame_id
                  /\ fut[i].timestamp_ms = items[i].timestamp_ms

\* a publish call that finds the pending count at max_pending is a drop: it
\* hands nothing to the executor or the broker client, leaves the counter
\* alone and the submission's future gets its result in the same step; and
\* nothing is dropped below max_pending
C9_FullMeansDrop ==
    /\ \A t \in DOMAIN tasks :
          (/\ tasks[t].pc = "check"
           /\ tasks'[t] # tasks[t]
           /\ pending_messages >= MaxPending)
          => /\ pubret'[tasks[t].batch[tasks[t].k]] = "dropped"
             /\ tasks'[t].pc \notin {"count", "store", "send"}
             /\ sent' = sent
             /\ inflight' = inflight
             /\ pending_messages' = pending_messages
             /\ fut'[tasks[t].batch[tasks[t].k]].state \in {"result", "cancelled"}
    /\ \A i \in DOMAIN pubret :
          pubret[i] # "dropped" /\ pubret'[i] = "dropped" =>
              pending_messages >= MaxPending

\* C9: a publish call made while the pending count is at max_pending returns
\* False at once: nothing is handed to the executor or the broker client, the
\* counter does not change, and the submission's future still gets its result.
C9_BackpressureDrop == []C9_DroppedKeepsReply /\ [][C9_FullMeansDrop]_vars

\* C9 witness: with the broker silent, max_pending publishes were accepted, the next one
\* was dropped, and all of these callers have their result
C9_Witness ==
    /\ Cardinality(inflight) = MaxPending
    /\ \E i \in DOMAIN pubret : pubret[i] = "dropped" /\ fut[i].state = "result"
    /\ \A i \in DOMAIN pubret :
          pubret[i] = "true" => fut[i].state = "result"
    /\ Cardinality({i \in DOMAIN pubret : pubret[i] = "true"}) = MaxPending

\* C2: every submission's future is resolved exactly once: set_result or
\* set_exception never hits a future that is done, and no future stays
\* pending forever.
C2_ResolvedExactlyOnce ==
    /\ [](\A i \in DOMAIN fut : fut[i].state # "invalid_state")
    /\ \A i \in Items :
          [](i \in DOMAIN fut => <>(i \in DOMAIN fut /\ Done(fut[i])))

\* a stop() call returns in this step
Returns(s) ==
    /\ stops'[s].pc = "returned"
    /\ s \in DOMAIN stops => stops[s].pc # "returned"

\* C4: when stop() returns, the queue is empty and every submission made so
\* far is in a terminal state.
C4_StopLeavesTerminal ==
    [][\A s \in DOMAIN stops' :
          Returns(s) =>
              /\ queue' = <<>>
              /\ \A i \in DOMAIN fut' : Done(fut'[i])]_vars

\* C5: a submit made after stop() has returned (and before any new start)
\* fails at once: nothing is enqueued and the caller's future is failed.
C5_SubmitAfterStopRejected ==
    [][(/\ \E s \in DOMAIN stops : stops[s].pc = "returned"
        /\ ~running
        /\ Len(items') > Len(items))
       => /\ queue' = queue
          /\ fut'[Len(items')].state = "exception"]_vars

\* C10: publish_detection never raises into the batcher, and no submission
\* of a batch whose predict call returned has its future failed.
C10_PublisherNeverFailsReply ==
    /\ \A i \in DOMAIN pubret : pubret[i] # "raised"
    /\ \A b \in DOMAIN dispatched :
          predicted[b] = "returned" =>
              \A i \in DOMAIN fut :
                  InBatch(i, dispatched[b]) => fut[i].state # "exception"

\* the handler returned for the record at offset o at some time so far
Succeeded(o) == \E h \in DOMAIN handled : handled[h].offset = o /\ handled[h].ok

\* the handler raised for the record at offset o at some time so far
Failed(o) == \E h \in DOMAIN handled : handled[h].offset = o /\ ~handled[h].ok

\* C11: no commit run() issues (asynchronous after a successful handle,
\* synchronous at shutdown) covers a record whose handler raised and has not
\* succeeded: a commit of offset v covers the records below v.
C11_CommitsOnlySucceeded ==
    \A c \in DOMAIN commits :
        \A o \in 0..(commits[c].offset - 1) : Failed(o) => Succeeded(o)

\* C12: when a stopped consumer is replaced by a new one of the same group,
\* the new one starts at or below every record whose handler raised (and never
\* succeeded), so that the record is delivered again, and above every record
\* whose handler succeeded, so that it is not.
C12_RestartRedelivers ==
    [][(c_pc = "stopped" /\ c_pc' = "new")
       => \A o \in 0..(MaxRecords - 1) :
             /\ (Failed(o) /\ ~Succeeded(o)) => position' <= o
             /\ Succeeded(o) => position' > o]_vars

\* the handler raises in this step
C13_HandlerRaises ==
    /\ Len(handled') = Len(handled) + 1
    /\ ~handled'[Len(handled')].ok

\* C13: when the handler raises for a record, the error goes to on_error, the
\* record goes to the DLQ if and only if a DLQ producer is configured, whether
\* or not that publish fails run() goes on to its next poll, and run() ends
\* only after shutdown() or when a record cannot be converted, never because
\* of a handler or DLQ failure.
C13_HandlerErrorContained ==
    [][/\ C13_HandlerRaises =>
             /\ on_errors' = Append(on_errors, c_msg)
             /\ dlq_producer =>
                   /\ Len(dlq') = Len(dlq) + 1
                   /\ dlq'[Len(dlq')].offset = c_msg
             /\ ~dlq_producer => dlq' = dlq
             /\ c_pc' = "top"
             /\ c_running' = c_running
       /\ (c_pc' = "raising" /\ c_pc # "raising") => c_pc = "polling"
       /\ (c_pc' = "stopped" /\ c_pc # "stopped") => ~c_running]_vars

\* C13 witness: in one run the handler raised for a record, on_error got it,
\* its DLQ publish failed, and a later record was handled successfully
C13_Witness ==
    \E h, g \in DOMAIN handled :
        /\ h < g
        /\ handled[h].run = handled[g].run
        /\ ~handled[h].ok
        /\ handled[g].ok
        /\ \E e \in DOMAIN on_errors : on_errors[e] = handled[h].offset
        /\ \E d \in DOMAIN dlq :
              dlq[d].offset = handled[h].offset /\ ~dlq[d].ok

\* C14: for every value x of DetectionEvent, FrameMetadata and Alert,
\* from_bytes(to_bytes(x)) equals x.
C14_RoundTrip == codec_pc = "decoded" => codec_y = codec_x

\* C14 witness: an Alert with severity CRITICAL, status NEW, two source
\* detection ids and an aware expiry time went through the codec, and so did
\* a DetectionEvent with a zone and a FrameMetadata without location
C14_WitnessAlert ==
    /\ codec_pc = "decoded"
    /\ codec_cls = "Alert"
    /\ codec_x.severity = "CRITICAL"
    /\ codec_x.status = "NEW"
    /\ Len(codec_x.source_detection_ids) = 2
    /\ codec_x.expires_at # None
    /\ codec_x.expires_at[1].utcoffset # None
    /\ codec_bytes.json.severity = 3
    /\ codec_y.expires_at = codec_x.expires_at

\* C15: the queue never holds more than 10 * max_batch_size submissions (a
\* submit that would exceed the bound is rejected, not enqueued).
C15_QueueBounded == Len(queue) <= 10 * MaxBatchSize

\* C16: an enqueue that brings the queue to max_batch_size items raises the
\* batch-ready signal in the same step, and the signal stays raised until the
\* step that pops the head of the queue as the next batch: the loop's wait
\* ends on the signal, without the timer.
C16_EnqueueSignals ==
    (Len(queue') = Len(queue) + 1 /\ Len(queue') = MaxBatchSize) => batch_event'
C16_SignalHeldUntilDispatch ==
    (batch_event /\ ~batch_event') =>
        LET n == IF Len(queue) < MaxBatchSize THEN Len(queue) ELSE MaxBatchSize
        IN /\ queue' = SubSeq(queue, n + 1, Len(queue))
           /\ n > 0 => dispatched' = Append(dispatched, SubSeq(queue, 1, n))
C16_FullBatchSignalled ==
    [][C16_EnqueueSignals /\ C16_SignalHeldUntilDispatch]_vars
C16_Witness ==
    /\ running
    /\ batch_event
    /\ Len(queue) = MaxBatchSize
    /\ \E t \in DOMAIN tasks : tasks[t].pc = "wait"

\* a batch holding submission i has been handed to the detector
Dispatched(i) == \E b \in DOMAIN dispatched : InBatch(i, dispatched[b])

\* C17: while the batcher is running and detector calls end, every enqueued
\* submission is eventually dispatched in a batch, also when the queue never
\* fills a batch: the timer ends the loop's wait and the partial batch goes out
\* (a submission is excused only when the batcher stops running).
C17_EventuallyDispatched ==
    \A i \in Items :
        (InBatch(i, queue) /\ running) ~> (Dispatched(i) \/ ~running)

\* C18: a dispatched batch is exactly the first min(q, max_batch_size)
\* submissions of the queue at pop time, in queue order, and the rest stays
\* queued in order; submissions made back to back go out in consecutive
\* batches, all full but the last.
C18_BatchIsQueueHead ==
    [][Len(dispatched') > Len(dispatched) =>
          LET n == IF Len(queue) < MaxBatchSize THEN Len(queue) ELSE MaxBatchSize
          IN /\ n >= 1
             /\ dispatched' = Append(dispatched, SubSeq(queue, 1, n))
             /\ queue' = SubSeq(queue, n + 1, Len(queue))]_vars

\* C18 witness: max_batch_size + 1 submissions were queued back to back and
\* went out as one full batch followed by a batch of one, in submission order
C18_Witness ==
    /\ Len(dispatched) = 2
    /\ dispatched[1] = [k \in 1..MaxBatchSize |-> k]
    /\ dispatched[2] = <<MaxBatchSize + 1>>
    /\ queue = <<>>

\* a publish_detection call is between its entry and its return
PublishInProgress ==
    \E t \in DOMAIN tasks : tasks[t].pc \in {"check", "count", "store", "send"}

\* C19: once every message that publish accepted has had its success or error
\* callback run and no publish call is in progress (none of which raised), the
\* pending count of a connected publisher is 0 and publish accepts again.
C19_PendingDrains ==
    ( /\ is_connected
      /\ inflight = {}
      /\ cb = -1
      /\ ~PublishInProgress
      /\ \A i \in DOMAIN pubret : pubret[i] # "raised" )
    => (pending_messages = 0 /\ ~PendingFull)

\* C20: a publish call on a publisher that is not connected (before the first
\* connect, after a failed connect, after disconnect) raises the not-connected
\* error and changes neither the pending count nor the broker client.
C20_NotConnectedRaises ==
    [][(direct'.n > direct.n /\ ~is_connected) =>
          /\ direct'.ret = "RuntimeError"
          /\ direct'.pc = "idle"
          /\ UNCHANGED <<pending_messages, producer, is_connected, inflight, sent>>
      ]_vars

\* C20 witness: a first publish was accepted while connected, disconnect()
\* has run and a connect() has failed; the second publish raised
C20_Witness ==
    /\ direct = [pc |-> "idle", n |-> 2, ret |-> "RuntimeError"]
    /\ sent = <<-1>>
    /\ ~is_connected
    /\ sessions = 1
    /\ connect_errors = 1

\* C21: a publish call whose message cannot be built or serialised returns
\* False and does not raise.  With a live broker client the only exception
\* that send can raise besides KafkaError is the value serializer's, so: a
\* publish call that ends while the client is live does not end by raising.
C21_EncodingFailureReturnsFalse ==
    [][(direct.pc = "send" /\ direct'.pc = "idle" /\ producer # 0)
          => direct'.ret # "raised"]_vars

\* C22: start() on a batcher that was started and has been stopped (it is not
\* running and every stop() call has returned) fails: no batch loop is
\* spawned and the batcher stays stopped.
C22_StartAfterStopFails ==
    [][(/\ tasks # <<>>
        /\ ~running
        /\ stops # <<>>
        /\ \A s \in DOMAIN stops : stops[s].pc = "returned")
          => (Len(tasks') = Len(tasks) /\ ~running')]_vars

\* C23: a submission that is queued and not yet in a batch when stop() is
\* called is cancelled and the detector is not invoked for it.  With callers
\* that submit nothing once stop() has been called, whatever is queued while
\* the stop() call is in progress was queued when it was called: no batch is
\* handed to the detector while a stop() call is in progress.
C23_StopCancelsQueued ==
    [][(\E s \in DOMAIN stops : stops[s].pc = "await")
          => Len(dispatched') = Len(dispatched)]_vars

\* C24: every detection message handed to the broker client carries its
\* result's frame id as key, whatever worker_id and camera_id are, and the
\* messages of two submissions with the same frame id are handed over in
\* submission order.
C24_KeyIsFrameId ==
    \A m \in inflight :
        m.item \in DOMAIN items => m.key = Some(items[m.item].frame_id)
C24_SameFrameInOrder ==
    \A j, k \in DOMAIN sent :
        (j < k /\ sent[j] \in DOMAIN items /\ sent[k] \in DOMAIN items
               /\ items[sent[j]].frame_id = items[sent[k]].frame_id)
            => sent[j] < sent[k]
C24_KeyedInOrder == C24_KeyIsFrameId /\ C24_SameFrameInOrder

\* C25: publish_alert returns True only for an alert the broker confirmed
\* within the bounded wait; not connected, a timeout of the wait or any other
\* failure of the send give False; it never raises; and a call made while
\* connected returns only with the outcome of its send.
C25_AlertConfirmedOrFalse ==
    /\ \A c \in DOMAIN alert.calls :
          LET call == alert.calls[c]
          IN /\ call.ret \in {"true", "false"}
             /\ call.ret = "true" <=> (call.connected /\ call.outcome = "confirmed")
             /\ call.connected <=> call.outcome # "none"

\* C25 witness: one alert was confirmed, one timed out, and one was published
\* after disconnect
C25_Witness ==
    /\ Len(alert.calls) = 3
    /\ \E c \in DOMAIN alert.calls : alert.calls[c].ret = "true"
    /\ \E c \in DOMAIN alert.calls :
          alert.calls[c].outcome = "KafkaTimeoutError" /\ alert.calls[c].ret = "false"
    /\ \E c \in DOMAIN alert.calls :
          ~alert.calls[c].connected /\ alert.calls[c].ret = "false"

\* the status the health rule gives
ExpectedHealth(model_loaded, configured, connected) ==
    IF model_loaded /\ (connected \/ ~configured) THEN "healthy"
    ELSE IF model_loaded THEN "degraded"
    ELSE "unhealthy"

StatusName(status) ==
    CASE status = "HEALTH_STATUS_HEALTHY" -> "healthy"
      [] status = "HEALTH_STATUS_DEGRADED" -> "degraded"
      [] status = "HEALTH_STATUS_UNHEALTHY" -> "unhealthy"
      [] OTHER -> status

\* what a health interface answered agrees with the health rule
AgreesWithRule(probe) ==
    probe.status # "none" =>
        StatusName(probe.status)
            = ExpectedHealth(probe.model_loaded, probe.configured, probe.connected)

\* C26: on both health interfaces (gRPC HealthCheck and GET /health) the
\* status is healthy iff the model is loaded and the publisher is connected
\* or not configured, degraded iff the model is loaded and the publisher is
\* detached, unhealthy iff the model is not loaded.
C26_HealthRule ==
    AgreesWithRule(svc.rpc_health) /\ AgreesWithRule(svc.http_health)

StartupOrder == <<"load", "warmup", "connect", "servicer_start", "rpc_start">>

\* the startup statements that have completed
StartupDone ==
    Cardinality({i \in DOMAIN svc.log : \E j \in DOMAIN StartupOrder : svc.log[i] = StartupOrder[j]})

\* the shutdown statements of the components that exist, in the order the
\* lifecycle gives: RPC stop, batcher stop, publisher disconnect, unload
ExpectedShutdown ==
    (IF svc.grpc_server THEN <<"rpc_stop">> ELSE <<>>)
    \o (IF svc.grpc_servicer THEN <<"servicer_stop">> ELSE <<>>)
    \o (IF svc.kafka_producer THEN <<"disconnect">> ELSE <<>>)
    \o (IF svc.detector THEN <<"unload">> ELSE <<>>)

ShutdownDone == SubSeq(svc.log, StartupDone + 1, Len(svc.log))

PredictInProgress ==
    \/ \E t \in DOMAIN tasks : tasks[t].pc = "predict"
    \/ \E b \in DOMAIN predicted : predicted[b] = "running"

\* C27: startup runs load, warm-up, publisher connect (its failure not
\* fatal), batcher start, RPC start in this order; shutdown runs RPC stop,
\* batcher stop, publisher disconnect, model unload in this order, for the
\* components that were created, also when startup failed part-way; no batch
\* is in the detector once the model is unloaded and none publishes once the
\* publisher is disconnected.
C27_LifecycleOrder ==
    /\ SubSeq(svc.log, 1, StartupDone) = SubSeq(StartupOrder, 1, StartupDone)
    /\ Len(ShutdownDone) <= Len(ExpectedShutdown)
    /\ ShutdownDone = SubSeq(ExpectedShutdown, 1, Len(ShutdownDone))
    /\ svc.pc = "stopped" => ShutdownDone = ExpectedShutdown
    /\ connect_errors > 0 /\ ~svc.failed /\ svc.pc = "running" => StartupDone = Len(StartupOrder)
    /\ PredictInProgress => (svc.loaded /\ ShutdownDone \in {<<>>, <<"rpc_stop">>})
    /\ PublishInProgress => (\A i \in DOMAIN svc.log : svc.log[i] \notin {"disconnect", "unload"})

C27_Witness ==
    /\ svc.pc = "stopped"
    /\ ~svc.failed
    /\ svc.log = StartupOrder \o ShutdownOrder
    /\ Len(predicted) > 0
    /\ Len(sent) > 0
    /\ \E i \in DOMAIN items : fut[i].state = "cancelled"

\* run() is executing and shutdown() has been called
ShutdownRequested == c_pc \in {"top", "polling", "got"} /\ ~c_running

\* the final synchronous commit of the stored offsets is the last commit issued
FinalCommitIssued ==
    /\ commits' = Append(commits, [offset |-> position, kind |-> "sync"])
    /\ committed' = position

\* C28: once shutdown() has been called while run executes, run goes on only
\* to let the poll in progress return and the handler call in progress end,
\* starts no further poll, and returns; on its way out it commits the stored
\* offsets synchronously exactly once when auto-commit is disabled (run still
\* returns when this commit fails, and nothing is committed then), and not
\* at all when auto-commit is enabled.
C28_ShutdownStopsRun ==
    [][ShutdownRequested =>
         /\ c_pc' # c_pc =>
               \/ c_pc = "polling" /\ c_pc' \in {"top", "got", "raising"}
               \/ c_pc = "got" /\ c_pc' = "top"
               \/ c_pc = "top" /\ c_pc' = "stopped"
         /\ c_pc' = "stopped" =>
               IF enable_auto_commit
               THEN commits' = commits
               ELSE FinalCommitIssued \/ UNCHANGED <<commits, committed>>
         /\ c_pc' # "stopped" =>
               \A c \in DOMAIN commits' : c > Len(commits) => commits'[c].kind = "async"
      ]_vars

C28_Witness ==
    /\ c_pc = "stopped"
    /\ ~c_running
    /\ ~enable_auto_commit
    /\ Len(handled) = 2
    /\ Len(commits) = 3
    /\ commits[3] = [offset |-> 2, kind |-> "sync"]
    /\ committed = 2
    /\ position = 2

\* base64 decoding of a padded text
RECURSIVE B64Decode(_)
B64Decode(t) ==
    IF Len(t) < 4 THEN <<>>
    ELSE LET b1 == t[1] * 4 + t[2] \div 16
             b2 == (t[2] % 16) * 16 + t[3] \div 4
             b3 == (t[3] % 4) * 64 + t[4]
         IN IF t[3] = 64 THEN <<b1>>
            ELSE IF t[4] = 64 THEN <<b1, b2>>
            ELSE <<b1, b2, b3>> \o B64Decode(SubSeq(t, 5, Len(t)))

\* the offsets of the records whose handler raised, in the order of the calls
RECURSIVE FailedOffsets(_)
FailedOffsets(h) ==
    IF h = <<>> THEN <<>>
    ELSE (IF Head(h).ok THEN <<>> ELSE <<Head(h).offset>>) \o FailedOffsets(Tail(h))

\* C29: with a DLQ publisher, every record whose handler raised has had
\* exactly one DLQ publish by the time the next record is polled (and there
\* is none without a DLQ publisher); the message of each publish carries the
\* source topic in its original-topic header, a payload that base64-decodes
\* to the record's bytes, and as error-reason header the error text cut to
\* 256 characters.
C29_DlqEnvelope ==
    /\ [k \in DOMAIN dlq |-> dlq[k].offset]
          = (IF dlq_producer THEN FailedOffsets(handled) ELSE <<>>)
    /\ \A k \in DOMAIN dlq :
          LET m == DlqMessage(dlq[k])
              original == IF RecordValue(dlq[k].offset) = None THEN <<>>
                          ELSE RecordValue(dlq[k].offset)[1]
              error == ErrorText(dlq[k].offset)
          IN /\ m.headers.original_topic = SourceTopic
             /\ FromBytes(m.value).original_topic = SourceTopic
             /\ B64Decode(FromBytes(m.value).original_message_base64) = original
             /\ Len(m.headers.error_reason) = (IF Len(error) > 256 THEN 256 ELSE Len(error))
             /\ \A i \in DOMAIN m.headers.error_reason : m.headers.error_reason[i] = error[i]
             /\ FromBytes(m.value).error = error

C29_Witness ==
    /\ dlq_producer
    /\ c_pc = "polling"
    /\ Len(dlq) = 3
    /\ \A o \in 0..2 : \E k \in DOMAIN dlq : dlq[k].offset = o
    /\ \E k \in DOMAIN dlq : dlq[k].ok
    /\ \E k \in DOMAIN dlq : Len(ErrorText(dlq[k].offset)) > 256

\* C30: decoding a message in which an enumeration field carries an integer
\* outside the defined set does not raise and gives the member UNSPECIFIED
\* for that field.
C30_UnknownEnumUnspecified ==
    codec_pc = "decoded" =>
        /\ "raised" \notin DOMAIN codec_y
        /\ codec_cls = "Alert" =>
              LET data == FromBytes(codec_bytes)
              IN /\ ~EnumKnown(AlertType, data.alert_type) => codec_y.alert_type = "UNSPECIFIED"
                 /\ ~EnumKnown(AlertSeverity, data.severity) => codec_y.severity = "UNSPECIFIED"
                 /\ ~EnumKnown(AlertStatus, data.status) => codec_y.status = "UNSPECIFIED"

\* C31: the response of the batch path accounts for every item of the
\* request: successful_count + failed_count is the number of items, also for
\* items whose image cannot be decoded and items whose inference failed or
\* was cancelled.
C31_EveryItemAccounted ==
    (batch_rpc.pc = "idle" /\ batch_rpc.response.status # "none") =>
        /\ batch_rpc.response.status = "OK"
        /\ batch_rpc.response.successful_count + batch_rpc.response.failed_count
              = Len(batch_rpc.requests)
        /\ batch_rpc.response.responses = batch_rpc.response.successful_count

\* submission i belongs to a batch for which Detector.predict returned
InReturnedBatch(i, batches, outcomes) ==
    \E b \in DOMAIN batches : InBatch(i, batches[b]) /\ outcomes[b] = "returned"

\* the batch loop is inside publish_detection for submission i
Publishing(i, ts) ==
    \E t \in DOMAIN ts : /\ ts[t].pc \in {"check", "count", "store", "send"}
                          /\ ts[t].batch[ts[t].k] = i

\* C32: for each submission of a batch the detector computed, publish is
\* invoked exactly when a publisher is configured and connected at that
\* moment, and before the submission's future is resolved; the resolution
\* does not wait for the delivery callback; without a usable publisher the
\* future is resolved without a publish call.
C32_PublishThenResolve ==
    [][\A i \in DOMAIN fut :
          /\ (~Publishing(i, tasks) /\ Publishing(i, tasks')) => PublisherUsable
          /\ (/\ fut[i].state = "pending"
              /\ fut'[i].state \in {"result", "exception"}
              /\ InReturnedBatch(i, dispatched', predicted'))
                => IF pubret'[i] = "none" THEN ~PublisherUsable
                   ELSE Publishing(i, tasks) /\ ~Publishing(i, tasks')
      ]_vars

\* batch b has been computed and _process_batch has gone through it without
\* an exception
Completed(b) ==
    /\ predicted[b] = "returned"
    /\ \A t \in DOMAIN tasks : tasks[t].batch # dispatched[b]
    /\ \A k \in DOMAIN dispatched[b] : pubret[dispatched[b][k]] # "raised"

\* what holds of the completed batches when callers cancel
CancelledStillServed ==
    /\ \A i \in DOMAIN fut : fut[i].state # "invalid_state"
    /\ \A b \in DOMAIN dispatched : Completed(b) =>
          \A k \in DOMAIN dispatched[b] :
              LET i == dispatched[b][k]
              IN /\ pubret[i] \in {"true", "false", "dropped"}
                 /\ fut[i].state \in {"result", "cancelled"}
                 /\ fut[i].state = "result" => fut[i].frame_id = items[i].frame_id

\* C33: when a caller cancels its future before its batch completes, the
\* batch is still computed and the submission's result still published,
\* resolving the cancelled future changes nothing (no error, no second
\* resolution), and the other submissions of the batch get their results.
C33_CancelledIsNoOp ==
    [][/\ \A i \in DOMAIN fut : fut[i].state = "cancelled" => fut'[i] = fut[i]
       /\ CancelledStillServed'
      ]_vars

C33_Witness ==
    \E b \in DOMAIN dispatched :
        /\ Completed(b)
        /\ Len(dispatched[b]) = 2
        /\ fut[dispatched[b][1]].state = "cancelled"
        /\ pubret[dispatched[b][1]] = "true"
        /\ fut[dispatched[b][2]].state = "result"
        /\ pubret[dispatched[b][2]] = "true"

\* the batch loop tasks that have been spawned and have not ended
ActiveLoops == {t \in DOMAIN tasks : tasks[t].pc # "done"}

\* C34: start() and stop() are serialised: under any interleaving of start()
\* and stop() calls, also a start() made while a stop() waits for the loop to
\* exit, at most one batch loop is active, and a loop is active only while
\* the batcher is running or a stop() is waiting for that loop.
C34_OneLoopAtATime ==
    /\ Cardinality(ActiveLoops) <= 1
    /\ \A t \in ActiveLoops :
          running \/ \E s \in DOMAIN stops : stops[s].pc = "await" /\ stops[s].task = t

\* _process_batch has returned for batch b
Processed(b) == \A t \in DOMAIN tasks : tasks[t].batch # dispatched[b]

\* C35: after _process_batch returns, every future of its batch is done,
\* whether the detector returned one result per submission, raised, or
\* returned a list whose length differs from the length of the batch.
C35_ProcessedBatchDone ==
    \A b \in DOMAIN dispatched :
        Processed(b) => \A k \in DOMAIN dispatched[b] : Done(fut[dispatched[b][k]])

\* C36: whenever the batch loop waits while the queue holds at least
\* max_batch_size submissions (such as the rest of a longer queue after the
\* previous batch was popped), the batch-ready signal is set, so that the
\* wait ends without the timer.
C36_FullQueueSignalled ==
    \A t \in DOMAIN tasks :
        (tasks[t].pc = "wait" /\ running /\ BatchReady(queue)) => batch_event

\* a publish call of a direct caller returns False in this step
ReturnsFalse ==
    /\ direct'.pc = "idle"
    /\ direct'.ret = "false"
    /\ direct.pc = "send" \/ direct'.n > direct.n

\* C37: a publish call that returns false (dropped for backpressure, or
\* rejected by a broker error raised during send) leaves the pending count as
\* it was before the call: a drop does not touch the count, and a call that
\* counted its message before the send takes the count back when it returns.
C37_FalseLeavesPending ==
    [][ReturnsFalse =>
          pending_messages' = pending_messages - (IF direct.pc = "send" THEN 1 ELSE 0)
      ]_vars

\* the messages handed to the broker client in the current session whose
\* delivery callback has not run
Undelivered == {m \in inflight : is_connected /\ m.session = producer}

\* no publish call, delivery callback or disconnect is part-way through
PublisherAtRest ==
    /\ direct.pc = "idle"
    /\ cb = -1
    /\ ~disconnecting
    /\ \A t \in DOMAIN tasks : tasks[t].pc \notin {"check", "count", "store", "send"}

\* C38: the pending counter is never negative and, whenever no publish call,
\* callback or disconnect is part-way through, equals the number of messages
\* handed to the broker client in the current session whose delivery callback
\* has not run.
C38_PendingCountsUndelivered ==
    /\ pending_messages >= 0
    /\ PublisherAtRest => pending_messages = Cardinality(Undelivered)

\* the record just taken from poll() is reported as failed in this step
ReportedAsFailed == on_errors' # on_errors \/ dlq' # dlq

\* C39: a record is passed to handler.on_error and published to the DLQ only
\* if handler.handle raised for it; a record whose handle call returned is
\* neither reported nor dead-lettered, also when the commit after it fails.
C39_OnlyFailedHandleReported ==
    [][ReportedAsFailed =>
          /\ Len(handled') = Len(handled) + 1
          /\ handled'[Len(handled')].offset = c_msg
          /\ ~handled'[Len(handled')].ok
      ]_vars

\* stop() call s is waiting for the batch loop / has returned
StopWaiting(s) == s \in DOMAIN stops /\ stops[s].pc = "await"
StopReturned(s) == s \in DOMAIN stops /\ stops[s].pc = "returned"

\* C40: stop() always terminates: when the detector call of a batch ends and
\* the event loop runs what is runnable, every stop() call that waits for the
\* batch loop returns, whatever submit and start calls run meanwhile.
C40_StopTerminates ==
    \A s \in 1..(MaxStops + 1) : StopWaiting(s) ~> StopReturned(s)

====
